---- MODULE Spec2Model ----
(***************************************************************************)
(* Model of the wrap-around buffer of include/common/buffer.h, of the      *)
(* margin-aware buffer allocation b_alloc_margin and of the buffer wait    *)
(* queue.  Addresses are offsets from b->data: the storage of a buffer is  *)
(* the function area over 0..size-1 and b->p is a number.                  *)
(***************************************************************************)
EXTENDS Integers, Sequences, FiniteSets, TLC

VARIABLES buf, hnd, op, track, win, wraps, released,
          lockless, allocated, used, lock, pc, tb, tbuf, tcont, tret,
          wq, wq_lock, ofrom, cbt, depth,
          cs, ep, cop,
          sc, now_ms, sop,
          qcs, qop

\* the buffer under test, the pool and its threads, the wait queue, the
\* conn_stream, the stream connector with its endpoint descriptor and the
\* clock, the QUIC stream, and what the pool's actions (bvars) and the
\* buffer's actions (pvars) leave unchanged
bufvars == <<buf, hnd, op, track, win, wraps, released>>
poolvars == <<lockless, allocated, used, lock, pc, tb, tbuf, tcont, tret>>
wvars == <<wq, wq_lock, ofrom, cbt, depth>>
cvars == <<cs, ep, cop>>
svars == <<sc, now_ms, sop>>
qvars == <<qcs, qop>>
bvars == <<bufvars, wvars, cvars, svars, qvars>>
pvars == <<lockless, allocated, used, lock, pc, tb, tbuf, tcont, tret, wvars, cvars, svars, qvars>>
vars == <<buf, hnd, op, track, win, wraps, released, lockless, allocated, used, lock, pc, tb, tbuf, tcont, tret, wq, wq_lock, ofrom, cbt, depth, cs, ep, cop, sc, now_ms, sop, qcs, qop>>

(* ---------------------------- bounds ---------------------------------- *)
MaxSize == 4
MaxLen == 5
MaxIst == 3
MaxWraps == 2
UIntBits == 3
Threads == 2
PoolLimit == 4
Margin == 1
TickBits == 2
MaxData == 3

Byte == {1, 2}
Blocks == UNION {[1..n -> Byte] : n \in 0..MaxLen}
Ists == UNION {[1..n -> Byte] : n \in 0..MaxIst}
UIntMod == 2 ^ UIntBits
Min(x, y) == IF x < y THEN x ELSE y

(* ------------------- pointer and size helpers ------------------------- *)

\* b_ptr that wraps only beyond the end ("__ret > data + size")
b_ptr_late_wrap(b, ofs) ==
  LET ret == b.p + ofs IN
  IF ofs > 0 /\ ret > b.size THEN ret - b.size
  ELSE IF ofs < 0 /\ ret < 0 THEN ret + b.size
  ELSE ret

\* b_ptr(b, ofs): position relative to b->p, wrapped once at either end
b_ptr(b, ofs) ==
  LET ret == b.p + ofs IN
  IF ofs > 0 /\ ret >= b.size THEN ret - b.size
  ELSE IF ofs < 0 /\ ret < 0 THEN ret + b.size
  ELSE ret

b_to_end(b) == b.size - b.p

buffer_len(b) == b.i + b.o

buffer_wrap_sub(b, ptr) == IF ptr < 0 THEN ptr + b.size ELSE ptr

buffer_wrap_add(b, ptr) == IF ptr - b.size >= 0 THEN ptr - b.size ELSE ptr

buffer_total_space(b) == b.size - buffer_len(b)

\* buffer_full that counts the pending output as well
buffer_full_with_output(h, b, reserve) ==
  IF h = "buf_empty" THEN 0
  ELSE IF (b.i + b.o + reserve) % UIntMod >= b.size THEN 1 ELSE 0

\* buffer_full(b, reserve); <h> is the identity of the buffer, the sum is
\* an unsigned int sum
buffer_full(h, b, reserve) ==
  IF h = "buf_empty" THEN 0
  ELSE IF (b.i + reserve) % UIntMod >= b.size THEN 1 ELSE 0

bi_space_for_replace(b) ==
  IF b.p + b.i >= b.size THEN 0
  ELSE LET e0 == buffer_wrap_sub(b, b.p - b.o)
           end == IF e0 <= b.p THEN b.size ELSE e0
       IN end - (b.p + b.i)

(* ------------- helpers of common/buf.h (not in the sources) ----------- *)

\* b_head: first byte of the pending output
b_head(b) == IF b.p - b.o < 0 THEN b.p - b.o + b.size ELSE b.p - b.o

\* b_tail: first byte after the pending input
b_tail(b) == IF b.p + b.i >= b.size THEN b.p + b.i - b.size ELSE b.p + b.i

\* b_contig_space: bytes writable at the tail without wrapping
b_contig_space(b) ==
  LET right == b_head(b)
      left == right + b.i + b.o
  IN IF left >= b.size THEN right - (left - b.size) ELSE b.size - left

\* b_del as used by bi_eat: removes <del> bytes from the head of the input
b_del(b, del) == [b EXCEPT !.p = b_ptr(b, del), !.i = b.i - del]

\* b_reset
b_reset(b) == [b EXCEPT !.p = 0, !.i = 0, !.o = 0]

(* --------------------------- storage access --------------------------- *)

\* memcpy(dst, s, Len(s)) on the storage; bytes that fall outside of the
\* storage land in foreign memory and are not part of the area
memcpy(area, dst, s) ==
  [x \in DOMAIN area |->
     IF x >= dst /\ x < dst + Len(s) THEN s[x - dst + 1] ELSE area[x]]

\* the byte-per-byte loop "*p++ = *r.ptr++; if (p == end) p = b->data"
RECURSIVE putloop(_, _, _, _)
putloop(area, size, ptr, s) ==
  IF s = <<>> THEN area
  ELSE LET a1 == IF ptr \in DOMAIN area THEN [area EXCEPT ![ptr] = Head(s)] ELSE area
           p1 == IF ptr + 1 = size THEN 0 ELSE ptr + 1
       IN putloop(a1, size, p1, Tail(s))

OutOfArea == 0 - 1
peek(b, x) == IF x \in DOMAIN b.area THEN b.area[x] ELSE OutOfArea

(* ------------------------- buffer operations -------------------------- *)
\* every operation yields [b |-> the buffer afterwards, ret |-> its result,
\* acc |-> the set of addresses it read or wrote]
span(dst, n) == dst .. (dst + n - 1)

\* addresses visited by the byte-per-byte loops, n iterations from ptr
RECURSIVE loop_acc(_, _, _)
loop_acc(size, ptr, n) ==
  IF n = 0 THEN {}
  ELSE {ptr} \cup loop_acc(size, IF ptr + 1 = size THEN 0 ELSE ptr + 1, n - 1)

\* buffer_flush that does not wrap the cursor
buffer_flush_nowrap(b) ==
  [b |-> [b EXCEPT !.p = b.p + b.i, !.o = b.o + b.i, !.i = 0],
   ret |-> 0, acc |-> {}]

\* buffer_flush that forgets the output already pending ("o = i")
buffer_flush_drops_output(b) ==
  [b |-> [b EXCEPT !.p = buffer_wrap_add(b, b.p + b.i), !.o = b.i, !.i = 0],
   ret |-> 0, acc |-> {}]

buffer_flush(b) ==
  [b |-> [b EXCEPT !.p = buffer_wrap_add(b, b.p + b.i),
                   !.o = b.o + b.i,
                   !.i = 0],
   ret |-> 0, acc |-> {}]

\* bo_putchr that stores the byte after the pending input
bo_putchr_at_tail(b, c) ==
  IF buffer_len(b) = b.size THEN [b |-> b, ret |-> 0, acc |-> {}]
  ELSE [b |-> [b EXCEPT !.area = memcpy(b.area, b_ptr(b, b.i), <<c>>),
                        !.p = b_ptr(b, 1),
                        !.o = b.o + 1],
        ret |-> 0, acc |-> {b_ptr(b, b.i)}]

bo_putchr(b, c) ==
  IF buffer_len(b) = b.size THEN [b |-> b, ret |-> 0, acc |-> {}]
  ELSE [b |-> [b EXCEPT !.area = memcpy(b.area, b.p, <<c>>),
                        !.p = b_ptr(b, 1),
                        !.o = b.o + 1],
        ret |-> 0, acc |-> {b.p}]

bo_putblk(b, blk) ==
  LET cur_len == buffer_len(b)
      len == IF Len(blk) > b.size - cur_len THEN b.size - cur_len ELSE Len(blk)
      half == Min(b_contig_space(b), len)
      b1 == [b EXCEPT !.area = memcpy(b.area, b.p, SubSeq(blk, 1, half)),
                      !.p = b_ptr(b, half)]
      b2 == IF len > half
            THEN [b1 EXCEPT !.area = memcpy(b1.area, b1.p, SubSeq(blk, half + 1, len)),
                            !.p = b_ptr(b1, half)]
            ELSE b1
  IN IF len = 0 THEN [b |-> b, ret |-> 0, acc |-> {}]
     ELSE [b |-> [b2 EXCEPT !.o = b.o + len], ret |-> len,
           acc |-> span(b.p, half) \cup (IF len > half THEN span(b1.p, len - half) ELSE {})]

bi_putchr(b, c) ==
  IF buffer_len(b) = b.size THEN [b |-> b, ret |-> 0, acc |-> {}]
  ELSE [b |-> [b EXCEPT !.area = memcpy(b.area, b_tail(b), <<c>>),
                        !.i = b.i + 1],
        ret |-> 0, acc |-> {b_tail(b)}]

\* bi_putblk whose second copy forgets the bytes of the first one
\* ("b_ptr(b, b->i)")
bi_putblk_second_at_tail(b, blk) ==
  LET cur_len == buffer_len(b)
      len == IF Len(blk) > b.size - cur_len THEN b.size - cur_len ELSE Len(blk)
      half == Min(b_contig_space(b), len)
      a1 == memcpy(b.area, b_tail(b), SubSeq(blk, 1, half))
      a2 == IF len > half
            THEN memcpy(a1, b_ptr(b, b.i), SubSeq(blk, half + 1, len))
            ELSE a1
  IN IF len = 0 THEN [b |-> b, ret |-> 0, acc |-> {}]
     ELSE [b |-> [b EXCEPT !.area = a2, !.i = b.i + len], ret |-> len,
           acc |-> span(b_tail(b), half) \cup
                   (IF len > half THEN span(b_ptr(b, b.i), len - half) ELSE {})]

bi_putblk(b, blk) ==
  LET cur_len == buffer_len(b)
      len == IF Len(blk) > b.size - cur_len THEN b.size - cur_len ELSE Len(blk)
      half == Min(b_contig_space(b), len)
      a1 == memcpy(b.area, b_tail(b), SubSeq(blk, 1, half))
      a2 == IF len > half
            THEN memcpy(a1, b_ptr(b, b.i + half), SubSeq(blk, half + 1, len))
            ELSE a1
  IN IF len = 0 THEN [b |-> b, ret |-> 0, acc |-> {}]
     ELSE [b |-> [b EXCEPT !.area = a2, !.i = b.i + len], ret |-> len,
           acc |-> span(b_tail(b), half) \cup
                   (IF len > half THEN span(b_ptr(b, b.i + half), len - half) ELSE {})]

\* the comparison loop of b_isteq from position ptr
RECURSIVE isteq_loop(_, _, _)
isteq_loop(b, ptr, r) ==
  IF r = <<>> THEN TRUE
  ELSE IF peek(b, ptr) # Head(r) THEN FALSE
  ELSE isteq_loop(b, IF ptr + 1 = b.size THEN 0 ELSE ptr + 1, Tail(r))

\* The parameter <o> of b_isteq is an unsigned int: the value passed is
\* taken modulo OfsMod, the range of unsigned int scaled down to the sizes
\* of the model but kept larger than three buffers.  DataAddr is the
\* address of b->data in a build whose pointers have the width of unsigned
\* int; there "b->p + o" wraps around the address space
OfsMod == 2 ^ (UIntBits + 2)
DataAddr == OfsMod \div 2

\* b_ptr(b, o) with <o> unsigned: "(ofs) < 0" never holds.  With 64-bit
\* pointers (lp64) the sum does not wrap; the position is an offset from
\* b->data in both builds
b_ptr_uint(b, o, lp64) ==
  LET ret == IF lp64 THEN b.p + o
             ELSE ((DataAddr + b.p + o) % OfsMod) - DataAddr
  IN IF o > 0 /\ ret >= b.size THEN ret - b.size ELSE ret

\* b_isteq that wants one byte more than the string ("n <= r.len")
b_isteq_needs_more(b, ofs, n, ist, lp64) ==
  IF n <= Len(ist) THEN 0
  ELSE IF isteq_loop(b, b_ptr_uint(b, ofs % OfsMod, lp64), ist)
       THEN Len(ist) ELSE 0 - 1

b_isteq(b, ofs, n, ist, lp64) ==
  IF n < Len(ist) THEN 0
  ELSE IF isteq_loop(b, b_ptr_uint(b, ofs % OfsMod, lp64), ist)
       THEN Len(ist) ELSE 0 - 1

\* addresses read by b_isteq: up to and including the first differing byte
RECURSIVE isteq_acc(_, _, _)
isteq_acc(b, ptr, r) ==
  IF r = <<>> THEN {}
  ELSE IF peek(b, ptr) # Head(r) THEN {ptr}
  ELSE {ptr} \cup isteq_acc(b, IF ptr + 1 = b.size THEN 0 ELSE ptr + 1, Tail(r))

\* with o = 0 the width of the pointers plays no part
bi_eat(b, ist) ==
  LET ret == b_isteq(b, 0, b.i, ist, TRUE)
  IN [b |-> IF ret > 0 THEN b_del(b, ret) ELSE b, ret |-> ret,
      acc |-> IF b.i < Len(ist) THEN {} ELSE isteq_acc(b, b_ptr(b, 0), ist)]

\* bi_istput that tests the room against the input only ("size - i")
bi_istput_ignores_output(b, ist) ==
  IF Len(ist) > b.size - b.i
  THEN [b |-> b, ret |-> IF Len(ist) < b.size THEN 0 ELSE 0 - 1, acc |-> {}]
  ELSE [b |-> [b EXCEPT !.i = b.i + Len(ist),
                        !.area = putloop(b.area, b.size, b_ptr(b, b.i), ist)],
        ret |-> Len(ist),
        acc |-> loop_acc(b.size, b_ptr(b, b.i), Len(ist))]

bi_istput(b, ist) ==
  IF Len(ist) > b.size - b.i - b.o
  THEN [b |-> b, ret |-> IF Len(ist) < b.size THEN 0 ELSE 0 - 1, acc |-> {}]
  ELSE [b |-> [b EXCEPT !.i = b.i + Len(ist),
                        !.area = putloop(b.area, b.size, b_ptr(b, b.i), ist)],
        ret |-> Len(ist),
        acc |-> loop_acc(b.size, b_ptr(b, b.i), Len(ist))]

bo_istput(b, ist) ==
  IF Len(ist) > b.size - b.o
  THEN [b |-> b, ret |-> IF Len(ist) < b.size THEN 0 ELSE 0 - 1, acc |-> {}]
  ELSE [b |-> [b EXCEPT !.o = b.o + Len(ist),
                        !.p = b_ptr(b, Len(ist)),
                        !.area = putloop(b.area, b.size, b.p, ist)],
        ret |-> Len(ist),
        acc |-> loop_acc(b.size, b.p, Len(ist))]


(* ------------------------------ releasing ----------------------------- *)
\* __b_drop / b_drop: [h |-> what the handle designates afterwards,
\* rel |-> number of buffers given back to the pool]
\* b_drop without the test of the size (__b_drop)
b_drop_unchecked(h, b) == [h |-> "dropped", rel |-> 1]

b_drop(h, b) ==
  IF b.size = 0 THEN [h |-> h, rel |-> 0]
  ELSE [h |-> "dropped", rel |-> 1]

b_free(h, b) == [h |-> "buf_empty", rel |-> b_drop(h, b).rel]

(* ------------------------------- state -------------------------------- *)
\* <op> is the call in progress: its name, argument, result, the addresses
\* it accessed and the buffer and handle it was applied to; "idle" between
\* two calls
Idle(h, b) == [name |-> "idle", ret |-> 0, arg |-> <<>>, acc |-> {},
               pre |-> b, preh |-> h]

\* buf_empty and buf_wanted: no storage, size 0
Sentinel == [size |-> 0, p |-> 0, i |-> 0, o |-> 0, area |-> <<>>]

\* a buffer as b_alloc returns it: b->size set, b_reset done
Fresh(sz) == b_reset([size |-> sz, p |-> 0, i |-> 0, o |-> 0,
                      area |-> [x \in 0 .. sz - 1 |-> 0]])

\* cs_init (conn_stream.h): the fields of a conn_stream that cs_new returns.
\* <si> tells whether cs->si is set, <ops> is cs->si->ops, <events> is
\* cs->si->wait_event.events, <freed> counts the pool_free of the conn_stream
\* and <crashed> tells that the process died on an invalid access
cs_init ==
  [app |-> "NULL", end |-> "NULL", ctx |-> "NULL", flags |-> 0,
   si |-> FALSE, ops |-> "none", events |-> 0, data_cb |-> "NULL",
   freed |-> 0, crashed |-> FALSE]

\* no endpoint object
NoEndp ==
  [kind |-> "NULL", mux |-> FALSE, destroy_cb |-> FALSE, release |-> FALSE,
   ctx |-> "NULL", owner |-> "NULL", state |-> "none"]

\* a conn_stream just returned by cs_new, no call made on it yet
CsIdle ==
  /\ cs = cs_init
  /\ ep = NoEndp
  /\ cop = [name |-> "cs_new", ret |-> 0, pre |-> cs_init, pree |-> NoEndp,
            log |-> <<>>]

\* buffer_wq is empty, buffer_wq_lock is free and no thread is in
\* offer_buffers
WqIdle ==
  /\ wq = <<>> /\ wq_lock = 0
  /\ ofrom = [t \in 1..Threads |-> 0]
  /\ cbt = [t \in 1..Threads |-> 0]
  /\ depth = [t \in 1..Threads |-> 0]

\* TICK_ETERNITY (ticks.h): the value of a timestamp that is not set
TICK_ETERNITY == 0

\* a stream connector on a mux endpoint, as sc_new and sedesc_new leave it:
\* no flag but the endpoint's type, lra and fsb not set.  <mux> tells which
\* shutdown hooks the mux's ops define, <strict> whether BUG_ON is compiled
\* in (DEBUG_STRICT), <hooks> lists the calls made to the mux's hooks and
\* <aborted> tells that a BUG_ON stopped the process
sc_init ==
  [flags |-> {},
   sedesc |-> [flags |-> {"SE_FL_T_MUX"}, lra |-> TICK_ETERNITY,
               fsb |-> TICK_ETERNITY],
   mux |-> [shutr |-> TRUE, shutw |-> TRUE],
   strict |-> TRUE, hooks |-> <<>>, aborted |-> FALSE]

\* no call made on the stream connector yet; <first> is the time of the
\* first blocked send reported since the last send activity (-1: none)
NoScCall == [name |-> "none", arg |-> "none", pre |-> sc_init, now |-> 0,
             first |-> 0 - 1]

ScIdle ==
  /\ sc = sc_init
  /\ now_ms = 0
  /\ sop = NoScCall

\* struct qcs and the struct qcc fields that bound it: a stream with nothing
\* received, nothing to send and limits <md> for both directions
qcs_init(md) ==
  [flags |-> {},
   rx |-> [offset |-> 0],
   tx |-> [offset |-> 0, sent_offset |-> 0, ack_offset |-> 0, msd |-> md],
   qcc |-> [rx |-> [max_data |-> md]]]

NoQcCall == [name |-> "none", arg |-> 0, ret |-> "ok", pre |-> qcs_init(0)]

QcsIdle ==
  /\ qcs = qcs_init(0)
  /\ qop = NoQcCall

\* the thread's last call was not an allocation
NoCall == [fn |-> "none", ret |-> "none"]

PoolIdle ==
  /\ lockless = FALSE /\ allocated = 0 /\ used = 0 /\ lock = 0
  /\ pc = [t \in 1..Threads |-> "idle"]
  /\ tb = [t \in 1..Threads |-> FALSE]
  /\ tbuf = [t \in 1..Threads |-> "buf_empty"]
  /\ tcont = [t \in 1..Threads |-> Sentinel]
  /\ tret = [t \in 1..Threads |-> NoCall]
  /\ WqIdle
  /\ CsIdle
  /\ ScIdle
  /\ QcsIdle

Init ==
  /\ \/ hnd \in {"buf_empty", "buf_wanted"} /\ buf = Sentinel
     \/ hnd = "alloc" /\ \E sz \in 1..MaxSize : buf = Fresh(sz)
  /\ op = Idle(hnd, buf)
  /\ track = FALSE
  /\ win = <<>>
  /\ wraps = 0
  /\ released = 0
  /\ PoolIdle

\* no call is in progress, the handle designates a buffer and the buffer
\* respects i + o <= size; outside of this the operations index foreign
\* memory
Usable == op.name = "idle" /\ hnd # "dropped" /\ buf.i + buf.o <= buf.size

\* the call returns to its caller; a buffer left with i + o > size is not
\* followed any further
Return ==
  /\ op.name # "idle"
  /\ buf.i + buf.o <= buf.size
  /\ op' = Idle(hnd, buf)
  /\ UNCHANGED <<buf, hnd, track, win, wraps, released>>
  /\ UNCHANGED pvars

\* win and wraps are history variables: the input bytes written and not yet
\* consumed, and how many times b->p went back past the end of the storage.
\* They are kept only by the specifications that start with track = TRUE.
Did(name, arg, r, w) ==
  /\ buf' = r.b
  /\ op' = [name |-> name, ret |-> r.ret, arg |-> arg, acc |-> r.acc,
            pre |-> buf, preh |-> hnd]
  /\ win' = IF track THEN w ELSE win
  /\ wraps' = IF track /\ r.b.p < buf.p THEN Min(MaxWraps, wraps + 1) ELSE wraps
  /\ UNCHANGED <<hnd, track, released>>
  /\ UNCHANGED pvars

\* bi_putblk of a block of S
Put_bi_putblk(S) ==
  /\ Usable
  /\ \E blk \in S :
       LET r == bi_putblk(buf, blk) IN
       Did("bi_putblk", blk, r, win \o SubSeq(blk, 1, r.ret))

Do_bi_putblk == Put_bi_putblk(Blocks)

Do_bi_putchr ==
  /\ Usable
  /\ \E c \in Byte :
       Did("bi_putchr", <<c>>, bi_putchr(buf, c),
           IF buffer_len(buf) = buf.size THEN win ELSE Append(win, c))

Do_bi_istput ==
  /\ Usable
  /\ \E ist \in Ists :
       LET r == bi_istput(buf, ist) IN
       Did("bi_istput", ist, r, IF r.ret > 0 THEN win \o ist ELSE win)

\* bi_eat of a string of S
Eat_bi_eat(S) ==
  /\ Usable
  /\ \E ist \in S :
       LET r == bi_eat(buf, ist) IN
       Did("bi_eat", ist, r,
           IF r.ret > 0 THEN SubSeq(win, r.ret + 1, Len(win)) ELSE win)

Do_bi_eat == Eat_bi_eat(Ists)

\* the two documented uses of b_isteq, on the input and on the output, in
\* a build with 64-bit or with 32-bit pointers
IsteqUses == {"b_isteq(b, 0, b->i, ist)", "b_isteq(b, -b->o, b->o, ist)"}

Do_b_isteq ==
  /\ Usable
  /\ \E ist \in Ists : \E use \in IsteqUses : \E lp64 \in BOOLEAN :
       LET o == IF use = "b_isteq(b, 0, b->i, ist)" THEN 0 ELSE 0 - buf.o
           n == IF use = "b_isteq(b, 0, b->i, ist)" THEN buf.i ELSE buf.o
       IN Did(use, ist,
              [b |-> buf, ret |-> b_isteq(buf, o, n, ist, lp64),
               acc |-> IF n < Len(ist) THEN {}
                       ELSE isteq_acc(buf, b_ptr_uint(buf, o % OfsMod, lp64),
                                      ist)],
              win)

Do_bo_putblk ==
  /\ Usable
  /\ \E blk \in Blocks : Did("bo_putblk", blk, bo_putblk(buf, blk), win)

Do_bo_putchr ==
  /\ Usable
  /\ \E c \in Byte : Did("bo_putchr", <<c>>, bo_putchr(buf, c), win)

Do_bo_istput ==
  /\ Usable
  /\ \E ist \in Ists : Did("bo_istput", ist, bo_istput(buf, ist), win)

Do_buffer_flush ==
  /\ Usable
  /\ Did("buffer_flush", <<>>, buffer_flush(buf), <<>>)

Do_buffer_full ==
  /\ Usable
  /\ \E reserve \in 0 .. UIntMod - 1 :
       Did("buffer_full", <<reserve>>,
           [b |-> buf, ret |-> buffer_full(hnd, buf, reserve), acc |-> {}], win)

Do_b_drop ==
  /\ Usable
  /\ LET r == b_drop(hnd, buf) IN
       /\ hnd' = r.h
       /\ released' = released + r.rel
  /\ op' = [name |-> "b_drop", ret |-> b_drop(hnd, buf).rel, arg |-> <<>>,
            acc |-> {}, pre |-> buf, preh |-> hnd]
  /\ UNCHANGED <<buf, track, win, wraps>>
  /\ UNCHANGED pvars

Do_b_free ==
  /\ Usable
  /\ LET r == b_free(hnd, buf) IN
       /\ hnd' = r.h
       /\ released' = released + r.rel
  /\ buf' = Sentinel
  /\ win' = <<>>
  /\ UNCHANGED <<track, wraps>>
  /\ op' = [name |-> "b_free", ret |-> b_free(hnd, buf).rel, arg |-> <<>>,
            acc |-> {}, pre |-> buf, preh |-> hnd]
  /\ UNCHANGED pvars

Next ==
  \/ Do_bi_putblk
  \/ Do_bi_putchr
  \/ Do_bi_istput
  \/ Do_bi_eat
  \/ Do_bo_putblk
  \/ Do_bo_putchr
  \/ Do_bo_istput
  \/ Do_buffer_flush
  \/ Do_buffer_full
  \/ Do_b_drop
  \/ Do_b_free
  \/ Return

Spec == Init /\ [][Next]_vars

\* comparisons with b_isteq of the input and of the output of a buffer that
\* is filled byte by byte and flushed
NextEq ==
  \/ Do_bi_putchr
  \/ Do_bo_putchr
  \/ Do_buffer_flush
  \/ Do_bi_eat
  \/ Do_b_isteq
  \/ Return

SpecEq == Init /\ [][NextEq]_vars

\* input side only: an allocated buffer, input writes and bi_eat, with the
\* history variables kept
InitIn ==
  /\ hnd = "alloc" /\ \E sz \in 1..MaxSize : buf = Fresh(sz)
  /\ op = Idle(hnd, buf)
  /\ track = TRUE
  /\ win = <<>>
  /\ wraps = 0
  /\ released = 0
  /\ PoolIdle

NextIn ==
  \/ Do_bi_putblk
  \/ Do_bi_putchr
  \/ Do_bi_istput
  \/ Do_bi_eat
  \/ Return

SpecIn == InitIn /\ [][NextIn]_vars

\* the 16-byte scenario: "HELLOWORLD" (ASCII codes) and some of its prefixes are
\* written to the input of an empty buffer of 16 bytes whose cursor is
\* anywhere in the storage, as it is once earlier input has been eaten
HELLOWORLD == <<72, 69, 76, 76, 79, 87, 79, 82, 76, 68>>
HelloBlocks == {SubSeq(HELLOWORLD, 1, n) : n \in {2, 4, 6, 10}}

InitHello ==
  /\ hnd = "alloc" /\ \E c \in 0 .. 15 : buf = [Fresh(16) EXCEPT !.p = c]
  /\ op = Idle(hnd, buf)
  /\ track = TRUE
  /\ win = <<>>
  /\ wraps = 0
  /\ released = 0
  /\ PoolIdle

Hello_bi_putblk == Put_bi_putblk(HelloBlocks)

NextHello ==
  \/ Hello_bi_putblk
  \/ Return

SpecHello == InitHello /\ [][NextHello]_vars


(* ------------------- b_alloc_margin and the pool ---------------------- *)
\* The pool is pool_head_buffer: <allocated> buffers exist, <used> of them
\* are handed out, the other allocated - used are on the free list, and no
\* more than PoolLimit may exist.  <lockless> is the build option
\* CONFIG_HAP_LOCKLESS_POOLS; without it <lock> holds the thread that owns
\* pool_head_buffer->lock, or 0.  Every thread calls b_alloc_margin with the
\* margin Margin on its own handle tbuf[t]; pc[t] is its position in the
\* function and tb[t] tells whether its local <b> is a buffer (not NULL).

\* __pool_get_first (memory.h): pops the free list, NULL when it is empty
pool_get_first(a, u) ==
  IF a - u > 0 THEN [allocated |-> a, used |-> u + 1, ok |-> TRUE]
  ELSE [allocated |-> a, used |-> u, ok |-> FALSE]

\* __pool_refill_alloc (memory.c): allocates new buffers until more than
\* <stop> = avail + used exist, keeps the extra ones on the free list and
\* returns the last one; NULL once the pool's limit is reached
RECURSIVE refill_loop(_, _, _)
refill_loop(a, u, stop) ==
  IF a >= PoolLimit THEN [allocated |-> a, used |-> u, ok |-> FALSE]
  ELSE IF a + 1 > stop THEN [allocated |-> a + 1, used |-> u + 1, ok |-> TRUE]
  ELSE refill_loop(a + 1, u, stop)

pool_refill_alloc(a, u, avail) == refill_loop(a, u, avail + u)

\* pool_free (memory.h): the buffer goes back to the free list
pool_free(a, u) == [allocated |-> a, used |-> u - 1]

\* a fast path test that lets the reserve itself be taken (">= margin")
margin_allows_equal(a, u, margin) == a - u >= margin

\* the fast path test of b_alloc_margin
margin_allows(a, u, margin) == a - u > margin

\* what the pool hands out: memory that is not cleared (pool_alloc_dirty),
\* so its size, i and o fields hold anything
Dirty ==
  {[size |-> x, p |-> 0, i |-> 1 - x, o |-> 1 - x, area |-> [k \in 0 .. 0 |-> 0]] :
     x \in 0 .. 1}

\* "b->size = pool_head_buffer->size - sizeof(struct buffer); b_reset(b);"
\* the pool's buffers hold one byte
Taken(d) == b_reset([d EXCEPT !.size = 1])

\* pool_alloc_dirty (memory.h): the free list first, then
\* __pool_refill_alloc(pool, 0), which fails when malloc does
pool_alloc_dirty(a, u, mem) ==
  LET r == pool_get_first(a, u) IN
    IF r.ok THEN r
    ELSE IF mem THEN pool_refill_alloc(a, u, 0)
    ELSE [allocated |-> a, used |-> u, ok |-> FALSE]

\* b_alloc that only sets the handle when it gets a buffer (no
\* "*buf = &buf_wanted" first)
b_alloc_keeps_handle(h, ok, d) ==
  IF ok THEN [h |-> "alloc", b |-> Taken(d), ret |-> "new"]
  ELSE [h |-> h, b |-> Sentinel, ret |-> "NULL"]

\* b_alloc on the handle <h>, <ok> and <d> being what pool_alloc_dirty
\* returned
b_alloc(h, ok, d) ==
  IF ok THEN [h |-> "alloc", b |-> Taken(d), ret |-> "new"]
  ELSE [h |-> "buf_wanted", b |-> Sentinel, ret |-> "NULL"]

\* b_alloc_fast: the same with what pool_get_first returned
b_alloc_fast(h, ok, d) ==
  IF ok THEN [h |-> "alloc", b |-> Taken(d), ret |-> "new"]
  ELSE [h |-> "buf_wanted", b |-> Sentinel, ret |-> "NULL"]

InitPool ==
  /\ hnd = "buf_empty" /\ buf = Sentinel
  /\ op = Idle(hnd, buf)
  /\ track = FALSE /\ win = <<>> /\ wraps = 0 /\ released = 0
  /\ lockless \in BOOLEAN
  /\ allocated = 0 /\ used = 0 /\ lock = 0
  /\ pc = [t \in 1..Threads |-> "idle"]
  /\ tb = [t \in 1..Threads |-> FALSE]
  /\ tbuf = [t \in 1..Threads |-> "buf_empty"]
  /\ tcont = [t \in 1..Threads |-> Sentinel]
  /\ tret = [t \in 1..Threads |-> NoCall]
  /\ WqIdle
  /\ CsIdle
  /\ ScIdle
  /\ QcsIdle

\* entry: "if ((*buf)->size) return *buf; *buf = &buf_wanted;"
am_enter ==
  \E t \in 1..Threads :
    /\ pc[t] = "idle"
    /\ IF tcont[t].size # 0
       THEN /\ tret' = [tret EXCEPT ![t] = [fn |-> "b_alloc_margin", ret |-> "old"]]
            /\ UNCHANGED <<pc, tbuf, tb, tcont>>
       ELSE /\ tbuf' = [tbuf EXCEPT ![t] = "buf_wanted"]
            /\ tcont' = [tcont EXCEPT ![t] = Sentinel]
            /\ tb' = [tb EXCEPT ![t] = FALSE]
            /\ pc' = [pc EXCEPT ![t] = IF lockless THEN "check" ELSE "lock"]
            /\ UNCHANGED tret
    /\ UNCHANGED <<lockless, allocated, used, lock>>
    /\ UNCHANGED bvars

\* HA_SPIN_LOCK(POOL_LOCK, &pool_head_buffer->lock)
am_lock ==
  \E t \in 1..Threads :
    /\ pc[t] = "lock" /\ lock = 0
    /\ lock' = t
    /\ pc' = [pc EXCEPT ![t] = "check"]
    /\ UNCHANGED <<lockless, allocated, used, tb, tbuf, tcont, tret>>
    /\ UNCHANGED bvars

\* "if ((pool_head_buffer->allocated - pool_head_buffer->used) > margin)"
am_check ==
  \E t \in 1..Threads :
    /\ pc[t] = "check"
    /\ pc' = [pc EXCEPT ![t] = IF margin_allows(allocated, used, Margin)
                                THEN "pop" ELSE "refill"]
    /\ UNCHANGED <<lockless, allocated, used, lock, tb, tbuf, tcont, tret>>
    /\ UNCHANGED bvars

\* fast path: __pool_get_first, then unlock, reset, "*buf = b" and return
\* (the local <b> is gone)
am_pop ==
  \E t \in 1..Threads : \E d \in Dirty :
    /\ pc[t] = "pop"
    /\ LET r == pool_get_first(allocated, used) IN
         /\ allocated' = r.allocated /\ used' = r.used
         /\ IF r.ok
            THEN /\ lock' = 0
                 /\ tb' = [tb EXCEPT ![t] = FALSE]
                 /\ tbuf' = [tbuf EXCEPT ![t] = "alloc"]
                 /\ tcont' = [tcont EXCEPT ![t] = Taken(d)]
                 /\ tret' = [tret EXCEPT ![t] = [fn |-> "b_alloc_margin", ret |-> "new"]]
                 /\ pc' = [pc EXCEPT ![t] = "idle"]
            ELSE /\ pc' = [pc EXCEPT ![t] = "refill"]
                 /\ UNCHANGED <<lock, tb, tbuf, tcont, tret>>
    /\ UNCHANGED lockless
    /\ UNCHANGED bvars

\* slow path: __pool_refill_alloc(pool_head_buffer, margin); malloc may fail
am_refill ==
  \E t \in 1..Threads : \E mem \in BOOLEAN :
    /\ pc[t] = "refill"
    /\ LET r == IF mem THEN pool_refill_alloc(allocated, used, Margin)
                ELSE [allocated |-> allocated, used |-> used, ok |-> FALSE] IN
         /\ allocated' = r.allocated /\ used' = r.used
         /\ tb' = [tb EXCEPT ![t] = r.ok]
    /\ pc' = [pc EXCEPT ![t] = "unlock"]
    /\ UNCHANGED <<lockless, lock, tbuf, tcont, tret>>
    /\ UNCHANGED bvars

\* unlock after the slow path, then "if (b) { ...; *buf = b; } return b;"
am_unlock ==
  \E t \in 1..Threads : \E d \in Dirty :
    /\ pc[t] = "unlock"
    /\ lock' = 0
    /\ tbuf' = [tbuf EXCEPT ![t] = IF tb[t] THEN "alloc" ELSE tbuf[t]]
    /\ tcont' = [tcont EXCEPT ![t] = IF tb[t] THEN Taken(d) ELSE tcont[t]]
    /\ tret' = [tret EXCEPT ![t] = [fn |-> "b_alloc_margin",
                                    ret |-> IF tb[t] THEN "new" ELSE "NULL"]]
    /\ tb' = [tb EXCEPT ![t] = FALSE]
    /\ pc' = [pc EXCEPT ![t] = "idle"]
    /\ UNCHANGED <<lockless, allocated, used>>
    /\ UNCHANGED bvars

\* b_alloc by a thread; pool_alloc_dirty works under the pool's lock
am_b_alloc ==
  \E t \in 1..Threads : \E mem \in BOOLEAN : \E d \in Dirty :
    /\ pc[t] = "idle" /\ lock = 0
    /\ LET r == pool_alloc_dirty(allocated, used, mem)
           a == b_alloc(tbuf[t], r.ok, d) IN
         /\ allocated' = r.allocated /\ used' = r.used
         /\ tbuf' = [tbuf EXCEPT ![t] = a.h]
         /\ tcont' = [tcont EXCEPT ![t] = a.b]
         /\ tret' = [tret EXCEPT ![t] = [fn |-> "b_alloc", ret |-> a.ret]]
    /\ UNCHANGED <<lockless, lock, pc, tb>>
    /\ UNCHANGED bvars

\* b_alloc_fast by a thread; pool_get_first works under the pool's lock
am_b_alloc_fast ==
  \E t \in 1..Threads : \E d \in Dirty :
    /\ pc[t] = "idle" /\ lock = 0
    /\ LET r == pool_get_first(allocated, used)
           a == b_alloc_fast(tbuf[t], r.ok, d) IN
         /\ allocated' = r.allocated /\ used' = r.used
         /\ tbuf' = [tbuf EXCEPT ![t] = a.h]
         /\ tcont' = [tcont EXCEPT ![t] = a.b]
         /\ tret' = [tret EXCEPT ![t] = [fn |-> "b_alloc_fast", ret |-> a.ret]]
    /\ UNCHANGED <<lockless, lock, pc, tb>>
    /\ UNCHANGED bvars

\* the thread writes one byte of input into its buffer
am_bi_putchr ==
  \E t \in 1..Threads : \E c \in Byte :
    /\ pc[t] = "idle" /\ tbuf[t] = "alloc"
    /\ tcont' = [tcont EXCEPT ![t] = bi_putchr(tcont[t], c).b]
    /\ tret' = [tret EXCEPT ![t] = NoCall]
    /\ UNCHANGED <<lockless, allocated, used, lock, pc, tb, tbuf>>
    /\ UNCHANGED bvars

\* b_free of the thread's buffer: pool_free under the pool's lock
am_b_free ==
  \E t \in 1..Threads :
    /\ pc[t] = "idle" /\ lock = 0
    /\ LET d == b_free(tbuf[t], tcont[t])
           r == IF d.rel = 1 THEN pool_free(allocated, used)
                ELSE [allocated |-> allocated, used |-> used] IN
         /\ tbuf' = [tbuf EXCEPT ![t] = d.h]
         /\ tcont' = [tcont EXCEPT ![t] = Sentinel]
         /\ allocated' = r.allocated /\ used' = r.used
    /\ tret' = [tret EXCEPT ![t] = NoCall]
    /\ UNCHANGED <<lockless, lock, pc, tb>>
    /\ UNCHANGED bvars

NextPool ==
  \/ am_enter
  \/ am_lock
  \/ am_check
  \/ am_pop
  \/ am_refill
  \/ am_unlock
  \/ am_b_alloc
  \/ am_b_alloc_fast
  \/ am_bi_putchr
  \/ am_b_free

SpecPool == InitPool /\ [][NextPool]_vars

(* ------------------- buffer_wq and offer_buffers ---------------------- *)
\* buffer_wq is the FIFO list of waiters, each known by its target; the
\* targets are the threads' own identities and 0 is NULL.  wq_lock is the
\* thread that owns buffer_wq_lock, or 0.  A thread in offer_buffers is at
\* "wq_lock" (spinning on the lock), "wq_walk" (lock taken) or "cb" (inside
\* the wakeup callback of the waiter cbt[t]); ofrom[t] is its <from> and
\* depth[t] the number of callbacks below its innermost offer_buffers.

\* __offer_buffer (buffer.c): walks the waiters in FIFO order, skips the one
\* whose target is <from> and yields the first other one, whose wakeup_cb is
\* called and which is then removed; 0 when there is none
RECURSIVE offer_walk(_, _, _)
offer_walk(q, k, from) ==
  IF k > Len(q) THEN 0
  ELSE IF q[k] = from THEN offer_walk(q, k + 1, from)
  ELSE q[k]

offer_buffer(q, from, threshold) == offer_walk(q, 1, from)

\* offer_buffers that hands NULL to __offer_buffer instead of <from>
offer_buffers_from_null(q, from, threshold) ==
  IF q = <<>> THEN [called |-> FALSE, wake |-> 0]
  ELSE [called |-> TRUE, wake |-> offer_buffer(q, 0, threshold)]

\* offer_buffers that returns whenever the list is not empty (test inverted)
offer_buffers_unless_empty(q, from, threshold) ==
  IF q # <<>> THEN [called |-> FALSE, wake |-> 0]
  ELSE [called |-> TRUE, wake |-> offer_buffer(q, from, threshold)]

\* offer_buffers once it has the lock: "if (LIST_ISEMPTY(&buffer_wq)) return;
\* __offer_buffer(from, threshold);"
offer_buffers(q, from, threshold) ==
  IF q = <<>> THEN [called |-> FALSE, wake |-> 0]
  ELSE [called |-> TRUE, wake |-> offer_buffer(q, from, threshold)]

\* LIST_DEL of the waiter of target w
list_del(q, w) == SelectSeq(q, LAMBDA x : x # w)

Thresholds == 0 .. 1

InitWq ==
  /\ hnd = "buf_empty" /\ buf = Sentinel
  /\ op = Idle(hnd, buf)
  /\ track = FALSE /\ win = <<>> /\ wraps = 0 /\ released = 0
  /\ PoolIdle

\* a thread that needs a buffer registers as a waiter, at the tail of
\* buffer_wq and under buffer_wq_lock
wq_enqueue ==
  \E t \in 1..Threads :
    /\ pc[t] = "idle" /\ wq_lock = 0
    /\ \A k \in 1 .. Len(wq) : wq[k] # t
    /\ wq' = Append(wq, t)
    /\ UNCHANGED <<wq_lock, ofrom, cbt, depth>>
    /\ UNCHANGED <<lockless, allocated, used, lock, pc, tb, tbuf, tcont, tret>>
    /\ UNCHANGED <<bufvars, cvars, svars, qvars>>

\* the owner of a waiter cancels it, under buffer_wq_lock
wq_cancel ==
  \E t \in 1..Threads :
    /\ pc[t] = "idle" /\ wq_lock = 0
    /\ \E k \in 1 .. Len(wq) : wq[k] = t
    /\ wq' = list_del(wq, t)
    /\ UNCHANGED <<wq_lock, ofrom, cbt, depth>>
    /\ UNCHANGED <<lockless, allocated, used, lock, pc, tb, tbuf, tcont, tret>>
    /\ UNCHANGED <<bufvars, cvars, svars, qvars>>

\* release of the thread's buffer: b_free, then the call of
\* offer_buffers(from, threshold), from being the thread itself or NULL
wq_release ==
  \E t \in 1..Threads : \E from \in {0, t} :
    /\ pc[t] = "idle" /\ tbuf[t] = "alloc" /\ lock = 0
    /\ LET d == b_free(tbuf[t], tcont[t])
           r == IF d.rel = 1 THEN pool_free(allocated, used)
                ELSE [allocated |-> allocated, used |-> used] IN
         /\ tbuf' = [tbuf EXCEPT ![t] = d.h]
         /\ tcont' = [tcont EXCEPT ![t] = Sentinel]
         /\ allocated' = r.allocated /\ used' = r.used
    /\ tret' = [tret EXCEPT ![t] = NoCall]
    /\ ofrom' = [ofrom EXCEPT ![t] = from]
    /\ pc' = [pc EXCEPT ![t] = "wq_lock"]
    /\ UNCHANGED <<wq, wq_lock, cbt, depth>>
    /\ UNCHANGED <<lockless, lock, tb>>
    /\ UNCHANGED <<bufvars, cvars, svars, qvars>>

\* HA_SPIN_LOCK(BUF_WQ_LOCK, &buffer_wq_lock)
ob_lock ==
  \E t \in 1..Threads :
    /\ pc[t] = "wq_lock" /\ wq_lock = 0
    /\ wq_lock' = t
    /\ pc' = [pc EXCEPT ![t] = "wq_walk"]
    /\ UNCHANGED <<wq, ofrom, cbt, depth>>
    /\ UNCHANGED <<lockless, allocated, used, lock, tb, tbuf, tcont, tret>>
    /\ UNCHANGED <<bufvars, cvars, svars, qvars>>

\* the rest of offer_buffers up to the wakeup callback: with no waiter to
\* wake it unlocks and returns, else the callback starts, the lock not
\* being released
ob_walk ==
  \E t \in 1..Threads : \E threshold \in Thresholds :
    /\ pc[t] = "wq_walk"
    /\ LET r == offer_buffers(wq, ofrom[t], threshold) IN
         IF r.called /\ r.wake # 0
         THEN /\ cbt' = [cbt EXCEPT ![t] = r.wake]
              /\ pc' = [pc EXCEPT ![t] = "cb"]
              /\ UNCHANGED wq_lock
         ELSE /\ wq_lock' = 0
              /\ pc' = [pc EXCEPT ![t] = IF depth[t] = 0 THEN "idle" ELSE "cb"]
              /\ UNCHANGED cbt
    /\ UNCHANGED <<wq, ofrom, depth>>
    /\ UNCHANGED <<lockless, allocated, used, lock, tb, tbuf, tcont, tret>>
    /\ UNCHANGED <<bufvars, cvars, svars, qvars>>

\* the wakeup callback releases a buffer of its target and calls
\* offer_buffers in its turn
cb_reenter ==
  \E t \in 1..Threads :
    /\ pc[t] = "cb" /\ depth[t] = 0
    /\ depth' = [depth EXCEPT ![t] = 1]
    /\ pc' = [pc EXCEPT ![t] = "wq_lock"]
    /\ UNCHANGED <<wq, wq_lock, ofrom, cbt>>
    /\ UNCHANGED <<lockless, allocated, used, lock, tb, tbuf, tcont, tret>>
    /\ UNCHANGED <<bufvars, cvars, svars, qvars>>

\* the wakeup callback returns: the waiter is removed, offer_buffers
\* unlocks and returns
ob_return ==
  \E t \in 1..Threads :
    /\ pc[t] = "cb" /\ depth[t] = 0
    /\ wq' = list_del(wq, cbt[t])
    /\ wq_lock' = 0
    /\ cbt' = [cbt EXCEPT ![t] = 0]
    /\ pc' = [pc EXCEPT ![t] = "idle"]
    /\ UNCHANGED <<ofrom, depth>>
    /\ UNCHANGED <<lockless, allocated, used, lock, tb, tbuf, tcont, tret>>
    /\ UNCHANGED <<bufvars, cvars, svars, qvars>>

NextWq ==
  \/ am_b_alloc
  \/ wq_enqueue
  \/ wq_cancel
  \/ wq_release
  \/ ob_lock
  \/ ob_walk
  \/ cb_reenter
  \/ ob_return

SpecWq == InitWq /\ [][NextWq]_vars

(* ----------------------------- conn_stream ---------------------------- *)
\* <cs> is one conn_stream, <ep> the endpoint object (connection or appctx)
\* last given to it and <cop> the last call made on it: its name, result,
\* the conn_stream and endpoint before it, and <log>, the calls it made to
\* the other layers and its accesses to the conn_stream ("cs"), in order.

\* cs_conn, cs_appctx, cs_strm, cs_check (conn_stream.h)
cs_conn(c) == c.end = "conn"
cs_appctx(c) == c.end = "appctx"
cs_strm(c) == c.app = "stream"
cs_check(c) == c.app = "check"

\* the endpoints a caller may attach: a connection with or without a mux,
\* a destroy_cb and a context of its own, or an appctx whose applet has a
\* release hook or not
Endpoints ==
  {[kind |-> "conn", mux |-> m, destroy_cb |-> d, release |-> FALSE,
    ctx |-> x, owner |-> "NULL", state |-> "live"] :
     m \in BOOLEAN, d \in BOOLEAN, x \in {"NULL", "other"}}
  \cup
  {[kind |-> "appctx", mux |-> FALSE, destroy_cb |-> FALSE, release |-> r,
    ctx |-> "NULL", owner |-> "NULL", state |-> "live"] : r \in BOOLEAN}

Apps == {"stream", "check"}
Ctxs == {"NULL", "ctx"}

\* cs_free: si_free(cs->si), then the conn_stream goes back to its pool
cs_free(c, log) ==
  [cs |-> [c EXCEPT !.si = FALSE, !.ops = "none", !.events = 0,
                    !.freed = @ + 1],
   log |-> log \o <<"si_free", "pool_free">>]

\* cs_attach_endp that only binds the endpoint and leaves the callbacks
cs_attach_endp_no_cb(c, endp, ctx, segv) ==
  [cs |-> [c EXCEPT !.end = endp.kind, !.ctx = ctx],
   ep |-> IF endp.kind = "conn"
          THEN [endp EXCEPT !.ctx = IF @ = "NULL" THEN "cs" ELSE @]
          ELSE [endp EXCEPT !.owner = "cs"],
   ret |-> 0, log |-> <<"cs">>]

\* cs_attach_endp(cs, endp, ctx); "cs->si->ops = ..." with cs->si NULL is an
\* invalid access: the process dies (segv) or the store lands elsewhere
cs_attach_endp(c, endp, ctx, segv) ==
  LET c1 == [c EXCEPT !.end = endp.kind, !.ctx = ctx] IN
    IF endp.kind = "conn"
    THEN [cs |-> IF cs_strm(c1)
                 THEN IF c1.si
                      THEN [c1 EXCEPT !.ops = "si_conn_ops",
                                      !.data_cb = "si_conn_cb"]
                      ELSE IF segv THEN [c1 EXCEPT !.crashed = TRUE]
                      ELSE [c1 EXCEPT !.data_cb = "si_conn_cb"]
                 ELSE IF cs_check(c1)
                 THEN [c1 EXCEPT !.data_cb = "check_conn_cb"]
                 ELSE c1,
          ep |-> [endp EXCEPT !.ctx = IF @ = "NULL" THEN "cs" ELSE @],
          ret |-> 0, log |-> <<"cs">>]
    ELSE [cs |-> IF c1.si
                 THEN [c1 EXCEPT !.ops = "si_applet_ops", !.data_cb = "NULL"]
                 ELSE c1,
          ep |-> [endp EXCEPT !.owner = "cs"],
          ret |-> 0, log |-> <<"cs">>]

\* cs_attach_app(cs, app); si_ok tells whether si_new gets its memory
cs_attach_app(c, app, si_ok) ==
  LET c1 == [c EXCEPT !.app = app] IN
    IF app = "stream"
    THEN LET c2 == IF ~c1.si /\ si_ok
                   THEN [c1 EXCEPT !.si = TRUE, !.ops = "si_embedded_ops",
                                   !.events = 0]
                   ELSE c1
         IN IF ~c2.si THEN [cs |-> c2, ret |-> 0 - 1, log |-> <<"cs">>]
            ELSE [cs |-> IF cs_conn(c2)
                         THEN [c2 EXCEPT !.ops = "si_conn_ops",
                                         !.data_cb = "si_conn_cb"]
                         ELSE IF cs_appctx(c2)
                         THEN [c2 EXCEPT !.ops = "si_applet_ops",
                                         !.data_cb = "NULL"]
                         ELSE [c2 EXCEPT !.ops = "si_embedded_ops",
                                         !.data_cb = "NULL"],
                  ret |-> 0, log |-> <<"cs">>]
    ELSE [cs |-> [c1 EXCEPT !.data_cb = "check_conn_cb"],
          ret |-> 0, log |-> <<"cs">>]

\* the first part of cs_detach_endp: what it asks of the endpoint
detach_calls(c, e) ==
  IF cs_conn(c)
  THEN IF e.mux
       THEN (IF c.si /\ c.events # 0 THEN <<"unsubscribe">> ELSE <<>>)
            \o <<"mux_detach">>
       ELSE <<"conn_stop_tracking", "conn_full_close">>
            \o (IF e.destroy_cb THEN <<"destroy_cb">> ELSE <<>>)
            \o <<"conn_free">>
  ELSE IF cs_appctx(c)
  THEN (IF e.release THEN <<"release">> ELSE <<>>) \o <<"appctx_free">>
  ELSE <<>>

\* the endpoint after it: handed to its mux, or freed
detach_endp_of(c, e) ==
  IF cs_conn(c) /\ e.mux THEN [e EXCEPT !.state = "detached"]
  ELSE IF cs_conn(c) \/ cs_appctx(c) THEN [e EXCEPT !.state = "freed"]
  ELSE e

\* the reset of the conn_stream in cs_detach_endp; a mux that is asked to
\* unsubscribe clears the events
detach_reset(c, e) ==
  [c EXCEPT !.flags = 0, !.end = "NULL", !.ctx = "NULL",
            !.ops = IF c.si THEN "si_embedded_ops" ELSE @,
            !.events = IF cs_conn(c) /\ e.mux THEN 0 ELSE @,
            !.data_cb = "NULL"]

\* cs_detach_endp that releases the conn_stream whatever cs->app is
cs_detach_endp_frees_always(c, e) ==
  LET f == cs_free(detach_reset(c, e), detach_calls(c, e) \o <<"cs">>)
  IN [cs |-> f.cs, ep |-> detach_endp_of(c, e), ret |-> 0, log |-> f.log]

\* cs_detach_endp that closes and frees the connection before it looks for
\* a mux
cs_detach_endp_closes_first(c, e) ==
  LET log == (IF cs_conn(c) THEN <<"conn_full_close", "conn_free">> ELSE <<>>)
             \o detach_calls(c, e) \o <<"cs">>
      c1 == detach_reset(c, e)
  IN IF c1.app = "NULL"
     THEN LET f == cs_free(c1, log)
          IN [cs |-> f.cs, ep |-> detach_endp_of(c, e), ret |-> 0, log |-> f.log]
     ELSE [cs |-> c1, ep |-> detach_endp_of(c, e), ret |-> 0, log |-> log]

\* cs_detach_endp that leaves cs->data_cb as it is
cs_detach_endp_keeps_data_cb(c, e) ==
  LET log == detach_calls(c, e) \o <<"cs">>
      c1 == [detach_reset(c, e) EXCEPT !.data_cb = c.data_cb]
  IN IF c1.app = "NULL"
     THEN LET f == cs_free(c1, log)
          IN [cs |-> f.cs, ep |-> detach_endp_of(c, e), ret |-> 0, log |-> f.log]
     ELSE [cs |-> c1, ep |-> detach_endp_of(c, e), ret |-> 0, log |-> log]

\* cs_detach_endp(cs)
cs_detach_endp(c, e) ==
  LET log == detach_calls(c, e) \o <<"cs">>
      c1 == detach_reset(c, e)
  IN IF c1.app = "NULL"
     THEN LET f == cs_free(c1, log)
          IN [cs |-> f.cs, ep |-> detach_endp_of(c, e), ret |-> 0, log |-> f.log]
     ELSE [cs |-> c1, ep |-> detach_endp_of(c, e), ret |-> 0, log |-> log]

\* cs_detach_app(cs)
cs_detach_app(c, e) ==
  LET log == <<"si_free", "cs">>
      c1 == [c EXCEPT !.app = "NULL", !.si = FALSE, !.ops = "none",
                      !.events = 0, !.data_cb = "NULL"]
  IN IF c1.end = "NULL"
     THEN LET f == cs_free(c1, log)
          IN [cs |-> f.cs, ep |-> e, ret |-> 0, log |-> f.log]
     ELSE [cs |-> c1, ep |-> e, ret |-> 0, log |-> log]

\* a call can be made on a conn_stream that exists, in a process that runs
Live == cs.freed = 0 /\ ~cs.crashed

Called(name, r) ==
  /\ cs' = r.cs
  /\ ep' = r.ep
  /\ cop' = [name |-> name, ret |-> r.ret, pre |-> cs, pree |-> ep,
             log |-> r.log]
  /\ UNCHANGED <<bufvars, poolvars, wvars, svars, qvars>>

InitCs ==
  /\ hnd = "buf_empty" /\ buf = Sentinel
  /\ op = Idle(hnd, buf)
  /\ track = FALSE /\ win = <<>> /\ wraps = 0 /\ released = 0
  /\ PoolIdle

\* cs_new once the previous conn_stream is gone
Do_cs_new ==
  /\ cs.freed > 0
  /\ Called("cs_new", [cs |-> cs_init, ep |-> NoEndp, ret |-> 0, log |-> <<>>])

Do_cs_attach_endp ==
  \E endp \in Endpoints : \E ctx \in Ctxs : \E segv \in BOOLEAN :
    /\ Live
    /\ Called("cs_attach_endp", cs_attach_endp(cs, endp, ctx, segv))

Do_cs_attach_app ==
  \E app \in Apps : \E si_ok \in BOOLEAN :
    /\ Live
    /\ LET r == cs_attach_app(cs, app, si_ok)
       IN Called("cs_attach_app", [cs |-> r.cs, ep |-> ep, ret |-> r.ret,
                                   log |-> r.log])

Do_cs_detach_endp ==
  /\ Live
  /\ Called("cs_detach_endp", cs_detach_endp(cs, ep))

Do_cs_detach_app ==
  /\ Live
  /\ Called("cs_detach_app", cs_detach_app(cs, ep))

\* the stream interface subscribes to events of its connection's mux
si_subscribe ==
  /\ Live /\ cs.si /\ cs_conn(cs) /\ ep.mux /\ cs.events = 0
  /\ Called("subscribe", [cs |-> [cs EXCEPT !.events = 1], ep |-> ep,
                          ret |-> 0, log |-> <<>>])

\* the endpoint sets a flag of the conn_stream (CS_FL_*)
cs_set_flags ==
  /\ Live /\ cs.end # "NULL" /\ cs.flags = 0
  /\ Called("set_flags", [cs |-> [cs EXCEPT !.flags = 1], ep |-> ep,
                          ret |-> 0, log |-> <<>>])

NextCs ==
  \/ Do_cs_new
  \/ Do_cs_attach_endp
  \/ Do_cs_attach_app
  \/ Do_cs_detach_endp
  \/ Do_cs_detach_app
  \/ si_subscribe
  \/ cs_set_flags

SpecCs == InitCs /\ [][NextCs]_vars

(* ------------- stream connector and endpoint descriptor --------------- *)
\* The flags of a sedesc (SE_FL_*) and of a stconn (SC_FL_*) are sets of
\* flag names: | is the union, & the intersection, &= ~ the difference.
\* SE_FL_SHR and SE_FL_SHW are the masks of the two read-shutdown and of
\* the two write-shutdown flags (stconn-t.h)
SE_FL_SHR == {"SE_FL_SHRD", "SE_FL_SHRR"}
SE_FL_SHW == {"SE_FL_SHWN", "SE_FL_SHWS"}
SE_FL_ERRORS == {"SE_FL_ERROR", "SE_FL_ERR_PENDING"}

co_shr_mode == {"CO_SHR_DRAIN", "CO_SHR_RESET"}
co_shw_mode == {"CO_SHW_NORMAL", "CO_SHW_SILENT"}

\* now_ms is an unsigned counter of milliseconds that wraps
TickMod == 2 ^ TickBits
Ticks == 0 .. TickMod - 1

\* tick_isset (ticks.h): a timestamp is set unless it is TICK_ETERNITY
tick_isset(expire) == expire # TICK_ETERNITY

se_fl_test(se, test) == (se.flags \cap test) # {}

se_fl_set(se, on) == [se EXCEPT !.flags = @ \cup on]

\* mutant of se_fl_set_error: the pending error replaced by the final one
se_fl_set_error_promotes(se) ==
  IF se_fl_test(se, {"SE_FL_EOS", "SE_FL_EOI"})
  THEN se_fl_set([se EXCEPT !.flags = @ \ {"SE_FL_ERR_PENDING"}],
                 {"SE_FL_ERROR"})
  ELSE se_fl_set(se, {"SE_FL_ERR_PENDING"})

se_fl_set_error(se) ==
  IF se_fl_test(se, {"SE_FL_EOS", "SE_FL_EOI"})
  THEN se_fl_set(se, {"SE_FL_ERROR"})
  ELSE se_fl_set(se, {"SE_FL_ERR_PENDING"})

sc_ep_test(s, test) == se_fl_test(s.sedesc, test)

sc_ep_set(s, on) == [s EXCEPT !.sedesc = se_fl_set(@, on)]

sc_ep_report_read_activity(s, now) == [s EXCEPT !.sedesc.lra = now]

sc_ep_report_blocked_send(s, now) ==
  IF ~tick_isset(s.sedesc.fsb) THEN [s EXCEPT !.sedesc.fsb = now] ELSE s

sc_ep_report_send_activity(s, now) ==
  LET s1 == [s EXCEPT !.sedesc.fsb = TICK_ETERNITY]
  IN IF "SC_FL_INDEP_STR" \notin s.flags
     THEN sc_ep_report_read_activity(s1, now)
     ELSE s1

\* sc_conn tells whether the endpoint is a mux stream (the connection it
\* returns is not NULL); sc_mux_ops gives the hooks of its mux, none for
\* another endpoint
sc_conn(s) == sc_ep_test(s, {"SE_FL_T_MUX"})

sc_mux_ops(s) ==
  IF sc_conn(s) THEN s.mux ELSE [shutr |-> FALSE, shutw |-> FALSE]

\* BUG_ON(cond) (bug.h): stops the process when cond holds and the build
\* has the check compiled in
BUG_ON(s, cond) == s.strict /\ cond

\* mutant of sc_conn_shutr: no test of the flags of a previous shutdown
sc_conn_shutr_again(s, mode) ==
  IF BUG_ON(s, ~sc_conn(s)) THEN [s EXCEPT !.aborted = TRUE]
  ELSE
    LET s1 == IF sc_mux_ops(s).shutr
              THEN [s EXCEPT !.hooks = Append(@, <<"shutr", mode>>)]
              ELSE s
    IN sc_ep_set(s1, IF mode = "CO_SHR_DRAIN" THEN {"SE_FL_SHRD"}
                                               ELSE {"SE_FL_SHRR"})

sc_conn_shutr(s, mode) ==
  IF BUG_ON(s, ~sc_conn(s)) THEN [s EXCEPT !.aborted = TRUE]
  ELSE IF sc_ep_test(s, SE_FL_SHR) THEN s
  ELSE
    LET s1 == IF sc_mux_ops(s).shutr
              THEN [s EXCEPT !.hooks = Append(@, <<"shutr", mode>>)]
              ELSE s
    IN sc_ep_set(s1, IF mode = "CO_SHR_DRAIN" THEN {"SE_FL_SHRD"}
                                               ELSE {"SE_FL_SHRR"})

sc_conn_shutw(s, mode) ==
  IF BUG_ON(s, ~sc_conn(s)) THEN [s EXCEPT !.aborted = TRUE]
  ELSE IF sc_ep_test(s, SE_FL_SHW) THEN s
  ELSE
    LET s1 == IF sc_mux_ops(s).shutw
              THEN [s EXCEPT !.hooks = Append(@, <<"shutw", mode>>)]
              ELSE s
    IN sc_ep_set(s1, IF mode = "CO_SHW_NORMAL" THEN {"SE_FL_SHWN"}
                                                ELSE {"SE_FL_SHWS"})

\* the second call is not made when the first one stopped the process
sc_conn_shut(s) ==
  LET s1 == sc_conn_shutw(s, "CO_SHW_SILENT")
  IN IF s1.aborted THEN s1 ELSE sc_conn_shutr(s1, "CO_SHR_RESET")

sc_conn_drain_and_shut(s) ==
  LET s1 == sc_conn_shutw(s, "CO_SHW_SILENT")
  IN IF s1.aborted THEN s1 ELSE sc_conn_shutr(s1, "CO_SHR_DRAIN")

\* mutant of sc_have_buff: the read activity is reported in every case
sc_have_buff_always_reports(s, now) ==
  sc_ep_report_read_activity(
    [s EXCEPT !.flags = @ \ {"SC_FL_NEED_BUFF"}], now)

sc_have_buff(s, now) ==
  IF "SC_FL_NEED_BUFF" \in s.flags
  THEN sc_ep_report_read_activity(
         [s EXCEPT !.flags = @ \ {"SC_FL_NEED_BUFF"}], now)
  ELSE s

sc_need_buff(s) == [s EXCEPT !.flags = @ \cup {"SC_FL_NEED_BUFF"}]

sc_have_room(s, now) ==
  IF "SC_FL_NEED_ROOM" \in s.flags
  THEN sc_ep_report_read_activity(
         [s EXCEPT !.flags = @ \ {"SC_FL_NEED_ROOM"}], now)
  ELSE s

sc_need_room(s) == [s EXCEPT !.flags = @ \cup {"SC_FL_NEED_ROOM"}]

\* a call on the stream connector in a process that runs; <first> becomes
\* <f>, the time of the first blocked send reported since the last send
\* activity
ScCalled(name, arg, s, f) ==
  /\ ~sc.aborted
  /\ sc' = s
  /\ sop' = [name |-> name, arg |-> arg, pre |-> sc, now |-> now_ms,
             first |-> f]
  /\ UNCHANGED <<now_ms, bufvars, poolvars, wvars, cvars, qvars>>

\* a stream connector on a mux stream or on an applet, the mux with or
\* without each shutdown hook, BUG_ON compiled in or not
InitSe ==
  /\ hnd = "buf_empty" /\ buf = Sentinel
  /\ op = Idle(hnd, buf)
  /\ track = FALSE /\ win = <<>> /\ wraps = 0 /\ released = 0
  /\ lockless = FALSE /\ allocated = 0 /\ used = 0 /\ lock = 0
  /\ pc = [t \in 1..Threads |-> "idle"]
  /\ tb = [t \in 1..Threads |-> FALSE]
  /\ tbuf = [t \in 1..Threads |-> "buf_empty"]
  /\ tcont = [t \in 1..Threads |-> Sentinel]
  /\ tret = [t \in 1..Threads |-> NoCall]
  /\ WqIdle
  /\ CsIdle
  /\ QcsIdle
  /\ \E type \in {"SE_FL_T_MUX", "SE_FL_T_APPLET"} :
       \E r \in BOOLEAN : \E w \in BOOLEAN : \E strict \in BOOLEAN :
         sc = [sc_init EXCEPT !.sedesc.flags = {type},
                              !.mux = [shutr |-> r, shutw |-> w],
                              !.strict = strict]
  /\ now_ms = 0
  /\ sop = [NoScCall EXCEPT !.pre = sc]

Do_sc_conn_shutr ==
  \E mode \in co_shr_mode :
    ScCalled("sc_conn_shutr", mode, sc_conn_shutr(sc, mode), sop.first)

Do_sc_conn_shutw ==
  \E mode \in co_shw_mode :
    ScCalled("sc_conn_shutw", mode, sc_conn_shutw(sc, mode), sop.first)

Do_sc_conn_shut ==
  ScCalled("sc_conn_shut", "none", sc_conn_shut(sc), sop.first)

Do_sc_conn_drain_and_shut ==
  ScCalled("sc_conn_drain_and_shut", "none", sc_conn_drain_and_shut(sc),
           sop.first)

Do_se_fl_set_error ==
  ScCalled("se_fl_set_error", "none",
           [sc EXCEPT !.sedesc = se_fl_set_error(@)], sop.first)

\* the endpoint reports the end of the stream or of the input
Do_se_fl_set ==
  \E f \in {"SE_FL_EOS", "SE_FL_EOI"} :
    ScCalled("se_fl_set", f, sc_ep_set(sc, {f}), sop.first)

NextSe ==
  \/ Do_sc_conn_shutr
  \/ Do_sc_conn_shutw
  \/ Do_sc_conn_shut
  \/ Do_sc_conn_drain_and_shut
  \/ Do_se_fl_set_error
  \/ Do_se_fl_set

SpecSe == InitSe /\ [][NextSe]_vars

\* a stream connector with dependent or independent streams, at any time
\* of the clock
InitSc ==
  /\ hnd = "buf_empty" /\ buf = Sentinel
  /\ op = Idle(hnd, buf)
  /\ track = FALSE /\ win = <<>> /\ wraps = 0 /\ released = 0
  /\ lockless = FALSE /\ allocated = 0 /\ used = 0 /\ lock = 0
  /\ pc = [t \in 1..Threads |-> "idle"]
  /\ tb = [t \in 1..Threads |-> FALSE]
  /\ tbuf = [t \in 1..Threads |-> "buf_empty"]
  /\ tcont = [t \in 1..Threads |-> Sentinel]
  /\ tret = [t \in 1..Threads |-> NoCall]
  /\ WqIdle
  /\ CsIdle
  /\ QcsIdle
  /\ \E fl \in SUBSET {"SC_FL_INDEP_STR"} : sc = [sc_init EXCEPT !.flags = fl]
  /\ now_ms \in Ticks
  /\ sop = [NoScCall EXCEPT !.pre = sc, !.now = now_ms]

\* the clock advances by one millisecond
tick ==
  /\ now_ms' = (now_ms + 1) % TickMod
  /\ UNCHANGED <<sc, sop, bufvars, poolvars, wvars, cvars, qvars>>

Do_sc_ep_report_blocked_send ==
  ScCalled("sc_ep_report_blocked_send", "none",
           sc_ep_report_blocked_send(sc, now_ms),
           IF sop.first < 0 THEN now_ms ELSE sop.first)

Do_sc_ep_report_send_activity ==
  ScCalled("sc_ep_report_send_activity", "none",
           sc_ep_report_send_activity(sc, now_ms), 0 - 1)

Do_sc_have_buff ==
  ScCalled("sc_have_buff", "none", sc_have_buff(sc, now_ms), sop.first)

Do_sc_need_buff ==
  ScCalled("sc_need_buff", "none", sc_need_buff(sc), sop.first)

Do_sc_have_room ==
  ScCalled("sc_have_room", "none", sc_have_room(sc, now_ms), sop.first)

Do_sc_need_room ==
  ScCalled("sc_need_room", "none", sc_need_room(sc), sop.first)

NextSc ==
  \/ tick
  \/ Do_sc_ep_report_blocked_send
  \/ Do_sc_ep_report_send_activity
  \/ Do_sc_have_buff
  \/ Do_sc_need_buff
  \/ Do_sc_have_room
  \/ Do_sc_need_room

SpecSc == InitSc /\ [][NextSc]_vars

(* --------------------- per-stream flow control ------------------------ *)
\* The updates of the flow-control fields of a qcs are those of mux_quic.c:
\* each takes the stream and its argument and gives the stream and what
\* is reported to the caller, "error" being the protocol violation.
Lens == 1 .. MaxData
Limits == 0 .. MaxData

\* mutant of qcs_recv: the receive limit is not enforced
qcs_recv_unchecked(q, len) ==
  [q |-> [q EXCEPT !.rx.offset = @ + len], ret |-> "ok"]

\* <len> bytes are received at rx.offset: beyond the receive limit they
\* are a protocol violation
qcs_recv(q, len) ==
  IF q.rx.offset + len > q.qcc.rx.max_data
  THEN [q |-> q, ret |-> "error"]
  ELSE [q |-> [q EXCEPT !.rx.offset = @ + len], ret |-> "ok"]

\* the receive limit is raised by <len> once the data was consumed
qcs_rx_credit(q, len) ==
  [q |-> [q EXCEPT !.qcc.rx.max_data = @ + len], ret |-> "ok"]

\* the application layer has <len> more bytes to send: tx.offset stops at
\* tx.msd and the stream is flagged as blocked by the stream flow control
qcs_xfer(q, len) ==
  LET n == Min(len, q.tx.msd - q.tx.offset)
      q1 == [q EXCEPT !.tx.offset = @ + n]
  IN IF n < len
     THEN [q |-> [q1 EXCEPT !.flags = @ \cup {"QC_SF_BLK_SFCTL"}],
           ret |-> "blocked"]
     ELSE [q |-> q1, ret |-> "ok"]

\* the transport layer reports <len> more bytes sent: they are among the
\* bytes ready to be sent
qcs_sent(q, len) ==
  IF q.tx.sent_offset + len > q.tx.offset
  THEN [q |-> q, ret |-> "error"]
  ELSE [q |-> [q EXCEPT !.tx.sent_offset = @ + len], ret |-> "ok"]

\* the peer acknowledges the bytes up to <off>: an offset that was never
\* sent is a protocol violation
qcs_ack(q, off) ==
  IF off > q.tx.sent_offset
  THEN [q |-> q, ret |-> "error"]
  ELSE [q |-> [q EXCEPT !.tx.ack_offset = IF off > @ THEN off ELSE @],
        ret |-> "ok"]

\* the peer announces the limit <md> for the stream: a limit below what is
\* ready to be sent is a protocol violation, a raised one unblocks the
\* stream
qcs_max_stream_data(q, md) ==
  IF md < q.tx.offset
  THEN [q |-> q, ret |-> "error"]
  ELSE [q |-> [q EXCEPT !.tx.msd = md,
                        !.flags = IF md > q.tx.msd
                                  THEN @ \ {"QC_SF_BLK_SFCTL"} ELSE @],
        ret |-> "ok"]

QcCalled(name, arg, r) ==
  /\ qcs' = r.q
  /\ qop' = [name |-> name, arg |-> arg, ret |-> r.ret, pre |-> qcs]
  /\ UNCHANGED <<bufvars, poolvars, wvars, cvars, svars>>

\* a stream just opened, with the limits negotiated for it
InitQc ==
  /\ hnd = "buf_empty" /\ buf = Sentinel
  /\ op = Idle(hnd, buf)
  /\ track = FALSE /\ win = <<>> /\ wraps = 0 /\ released = 0
  /\ lockless = FALSE /\ allocated = 0 /\ used = 0 /\ lock = 0
  /\ pc = [t \in 1..Threads |-> "idle"]
  /\ tb = [t \in 1..Threads |-> FALSE]
  /\ tbuf = [t \in 1..Threads |-> "buf_empty"]
  /\ tcont = [t \in 1..Threads |-> Sentinel]
  /\ tret = [t \in 1..Threads |-> NoCall]
  /\ WqIdle
  /\ CsIdle
  /\ ScIdle
  /\ \E md \in Limits : qcs = qcs_init(md)
  /\ qop = [NoQcCall EXCEPT !.pre = qcs]

Do_qcs_recv ==
  \E len \in Lens : QcCalled("qcs_recv", len, qcs_recv(qcs, len))

Do_qcs_rx_credit ==
  \E len \in Lens :
    /\ qcs.qcc.rx.max_data + len <= MaxData
    /\ QcCalled("qcs_rx_credit", len, qcs_rx_credit(qcs, len))

Do_qcs_xfer ==
  \E len \in Lens : QcCalled("qcs_xfer", len, qcs_xfer(qcs, len))

Do_qcs_sent ==
  \E len \in Lens : QcCalled("qcs_sent", len, qcs_sent(qcs, len))

Do_qcs_ack ==
  \E off \in Limits : QcCalled("qcs_ack", off, qcs_ack(qcs, off))

Do_qcs_max_stream_data ==
  \E md \in Limits :
    QcCalled("qcs_max_stream_data", md, qcs_max_stream_data(qcs, md))

NextQc ==
  \/ Do_qcs_recv
  \/ Do_qcs_rx_credit
  \/ Do_qcs_xfer
  \/ Do_qcs_sent
  \/ Do_qcs_ack
  \/ Do_qcs_max_stream_data

SpecQc == InitQc /\ [][NextQc]_vars

(* ----------------------- what a reader observes ----------------------- *)
\* the pending input, from b->p on, and the pending output, up to b->p,
\* both taken with wrap-around
ReadInput(b) == [k \in 1 .. b.i |-> b.area[(b.p + k - 1) % b.size]]
ReadOutput(b) == [k \in 1 .. b.o |-> b.area[(b.p + 2 * b.size - b.o + k - 1) % b.size]]

InputPuts == {"bi_putblk", "bi_putchr", "bi_istput"}
OutputPuts == {"bo_putblk", "bo_putchr", "bo_istput"}
Sentinels == {"buf_empty", "buf_wanted"}
Free(b) == b.size - b.i - b.o

(* ------------------------------- C1 ----------------------------------- *)
\* C1: whatever the capacity and the sequence of input writes and bi_eat,
\* the pending input read back with wrap-around is the sequence of bytes
\* written and not yet eaten, in order, however often the cursor wrapped
C1_WrapCorrectness == ReadInput(buf) = win

\* pending input that straddles the end of the storage after the cursor has
\* wrapped MaxWraps times
C1_Witness ==
  /\ wraps = MaxWraps /\ buf.i >= 2 /\ buf.p + buf.i > buf.size
  /\ op.name = "bi_putblk" /\ win = ReadInput(buf)

(* ------------------------------- C2 ----------------------------------- *)
BufferInv(b) == b.i + b.o <= b.size /\ b.p \in 0 .. b.size - 1

\* C2 as stated: after any sequence of buffer operations on an allocated
\* buffer, i + o <= size and p lies within [data, data + size)
C2_InvariantsKept == hnd = "alloc" => BufferInv(buf)

\* the last operation was a bo_istput of a string longer than the free space
\* (possible only with pending input, which bo_istput assumes not to exist)
bo_istput_over_input ==
  op.name = "bo_istput" /\ op.ret > 0 /\ Len(op.arg) > Free(op.pre)

\* C2 amended: every operation keeps i + o <= size and p within
\* [data, data + size), except a bo_istput of a string that is longer than
\* the free space size - i - o, which bo_istput accepts when input is pending
C2_InvariantsKeptButOverInput ==
  (hnd = "alloc" /\ ~bo_istput_over_input) => BufferInv(buf)

\* a full buffer whose cursor wrapped during a bo_istput
C2_Witness ==
  /\ hnd = "alloc" /\ op.name = "bo_istput" /\ op.ret = 2
  /\ ~bo_istput_over_input
  /\ buf.p < op.pre.p /\ buf.i + buf.o = buf.size /\ buf.i > 0

(* ------------------------------- C3 ----------------------------------- *)
\* C3: bi_putblk / bo_putblk of N bytes with K < N bytes free copies exactly
\* the first K bytes of the block, returns K and leaves buffer_len <= size;
\* with K = 0 it returns 0 and changes nothing; it never reports an error
C3_TruncationNotCorruption ==
  (op.name \in {"bi_putblk", "bo_putblk"} /\ Free(op.pre) < Len(op.arg)) =>
     LET K == Free(op.pre) IN
     /\ op.ret = K
     /\ buffer_len(buf) <= buf.size
     /\ K = 0 => buf = op.pre
     /\ op.name = "bi_putblk" =>
          ReadInput(buf) = ReadInput(op.pre) \o SubSeq(op.arg, 1, K)
     /\ op.name = "bo_putblk" =>
          ReadOutput(buf) = ReadOutput(op.pre) \o SubSeq(op.arg, 1, K)

HelloCase ==
  /\ op.name = "bi_putblk" /\ op.arg = HELLOWORLD
  /\ op.pre.size = 16 /\ op.pre.p = 12 /\ op.pre.i = 0 /\ op.pre.o = 0

\* C5 as stated: 16 bytes, cursor at 12, nothing pending; after the input
\* write of "HELLOWORLD" the input reads "HELLOWORLD" and the contiguous
\* free space is 2
C5_HelloThenTwoFree ==
  HelloCase =>
     /\ ReadInput(buf) = HELLOWORLD
     /\ b_contig_space(buf) = 2 \/ bi_space_for_replace(buf) = 2

\* C5 amended: in that scenario the input reads "HELLOWORLD" (4 bytes at
\* 12..15, 6 bytes at 0..5) and the contiguous free space after the tail is
\* 6 (bytes 6..11); bi_space_for_replace reports 0 as the input wraps
C5_HelloThenSixFree ==
  HelloCase =>
     /\ ReadInput(buf) = HELLOWORLD
     /\ op.ret = 10
     /\ b_tail(buf) = 6
     /\ b_contig_space(buf) = 6
     /\ bi_space_for_replace(buf) = 0

C5_Witness ==
  /\ HelloCase /\ buf.i = 10 /\ buf.p = 12
  /\ buf.area[15] = 76 /\ buf.area[0] = 79 /\ buf.area[5] = 68

C7_EatContract ==
  op.name = "bi_eat" =>
     LET inp == ReadInput(op.pre)
         n == Len(op.arg)
     IN /\ Len(inp) < n => (op.ret = 0 /\ buf = op.pre)
        /\ (Len(inp) >= n /\ SubSeq(inp, 1, n) # op.arg) =>
             (op.ret < 0 /\ buf = op.pre)
        /\ (Len(inp) >= n /\ SubSeq(inp, 1, n) = op.arg) =>
             /\ op.ret = n
             /\ ReadInput(buf) = SubSeq(inp, n + 1, Len(inp))
             /\ buf.i = op.pre.i - n
             /\ buf.area = op.pre.area /\ buf.size = op.pre.size

\* a match of two bytes that straddle the end of the storage
C7_Witness ==
  /\ op.name = "bi_eat" /\ op.ret = 2
  /\ op.pre.p = op.pre.size - 1 /\ buf.p = 1 /\ buf.i > 0

(* ------------------------------- C8 ----------------------------------- *)
\* C8: buffer_flush moves no byte; afterwards i = 0, o = old o + old i,
\* p = old p + old i modulo size, buffer_len is unchanged, the output is the
\* old output followed by the old input; a second flush changes nothing
C8_Flush ==
  op.name = "buffer_flush" =>
     /\ buf.area = op.pre.area /\ buf.size = op.pre.size
     /\ buf.i = 0
     /\ buf.o = op.pre.o + op.pre.i
     /\ buf.size > 0 => buf.p = (op.pre.p + op.pre.i) % buf.size
     /\ buf.size = 0 => buf.p = op.pre.p
     /\ buffer_len(buf) = buffer_len(op.pre)
     /\ ReadOutput(buf) = ReadOutput(op.pre) \o ReadInput(op.pre)
     /\ buffer_flush(buf).b = buf

\* a flush of wrapping input behind pending output
C8_Witness ==
  /\ op.name = "buffer_flush" /\ op.pre.i >= 2 /\ op.pre.o > 0
  /\ buf.p < op.pre.p /\ buf.p > 0

(* ------------------------------- C9 ----------------------------------- *)
SentinelOps == InputPuts \cup OutputPuts \cup {"bi_eat", "buffer_flush"}

\* C9 as stated: on buf_empty / buf_wanted every write or consume operation
\* reports zero progress and accesses no storage; b_drop / b_free release
\* nothing to the pool
C9_SentinelNoop ==
  op.preh \in Sentinels =>
     /\ op.name \in SentinelOps =>
          (op.ret = 0 /\ op.acc = {} /\ buf = op.pre)
     /\ op.name \in {"b_drop", "b_free"} => op.ret = 0

\* C9 amended: on buf_empty / buf_wanted every write or consume operation
\* leaves the buffer unchanged and accesses no storage; it reports 0, except
\* bi_istput / bo_istput of a non-empty string, which report -1 (will never
\* fit); b_drop / b_free release nothing to the pool
C9_SentinelNoopOrNeverFits ==
  op.preh \in Sentinels =>
     /\ op.name \in SentinelOps =>
          /\ op.acc = {} /\ buf = op.pre
          /\ op.ret = IF op.name \in {"bi_istput", "bo_istput"} /\ op.arg # <<>>
                      THEN 0 - 1 ELSE 0
     /\ op.name \in {"b_drop", "b_free"} => op.ret = 0

\* b_free on the wanted sentinel
C9_Witness ==
  /\ op.preh = "buf_wanted" /\ op.name = "b_free"
  /\ hnd = "buf_empty" /\ op.ret = 0


(* ------------------------------- C10 ---------------------------------- *)
\* C10: whatever the interleaving of the threads' b_alloc_margin calls, a
\* fast-path acquisition (a buffer taken from the free list) never leaves
\* fewer than Margin buffers available, and never more than PoolLimit
\* buffers are allocated
C10_MarginGuarantee ==
  /\ [][(used' = used + 1 /\ allocated' = allocated) =>
          allocated' - used' >= Margin]_vars
  /\ [](allocated <= PoolLimit)

(* ------------------------------- C11 ---------------------------------- *)
\* C11: a thread in b_alloc_margin takes a buffer from the free list only
\* when allocated - used > Margin holds at the pop, so that at least Margin
\* buffers remain available after it; it goes to the refill path only when
\* the test fails or the free list yields nothing
C11_FastPathOnlyAboveMargin ==
  [][\A t \in 1..Threads :
       /\ (pc[t] = "pop" /\ pc'[t] = "idle") =>
            /\ margin_allows(allocated, used, Margin)
            /\ allocated' - used' >= Margin
       /\ (pc[t] = "check" /\ pc'[t] = "refill") =>
            ~margin_allows(allocated, used, Margin)
       /\ (pc[t] = "pop" /\ pc'[t] = "refill") => allocated - used = 0]_vars

(* ------------------------------- C12 ---------------------------------- *)
Allocs == {"b_alloc", "b_alloc_fast", "b_alloc_margin"}

\* C12: when b_alloc, b_alloc_fast or b_alloc_margin has returned NULL the
\* thread's handle is buf_wanted; when it has returned a buffer taken from
\* the pool the handle is that buffer, of non-zero size with i = o = 0; after
\* any return the handle is a buffer or buf_wanted; and the call never waits
\* for a buffer: the only wait is for the pool's lock, whose owner is inside
\* the straight-line critical section
C12_WantedOrResetBuffer ==
  /\ \A t \in 1..Threads :
       (pc[t] = "idle" /\ tret[t].fn \in Allocs) =>
         /\ tret[t].ret = "NULL" =>
              (tbuf[t] = "buf_wanted" /\ tcont[t].size = 0)
         /\ tret[t].ret = "new" =>
              /\ tbuf[t] = "alloc" /\ tcont[t].size > 0
              /\ tcont[t].i = 0 /\ tcont[t].o = 0
         /\ tbuf[t] \in {"alloc", "buf_wanted"}
         /\ (tbuf[t] = "alloc") = (tcont[t].size > 0)
  /\ \A t \in 1..Threads :
       (pc[t] = "lock" /\ lock # 0) =>
         (lock # t /\ pc[lock] \in {"check", "pop", "refill", "unlock"})

\* the pool is exhausted: one thread has got NULL from b_alloc_margin and
\* holds buf_wanted, another one holds a reset buffer from b_alloc_fast
C12_Witness ==
  \E t, u \in 1..Threads :
    /\ t # u /\ pc[t] = "idle" /\ pc[u] = "idle"
    /\ allocated = PoolLimit /\ used = PoolLimit
    /\ tret[t] = [fn |-> "b_alloc_margin", ret |-> "NULL"]
    /\ tbuf[t] = "buf_wanted"
    /\ tret[u] = [fn |-> "b_alloc_fast", ret |-> "new"]
    /\ tbuf[u] = "alloc" /\ tcont[u].i = 0

(* ------------------------------- C13 ---------------------------------- *)
\* the step is thread t's call of the allocation function fn
CallOf(t, fn) ==
  /\ pc[t] = "idle" /\ pc'[t] = "idle" /\ tret'[t].fn = fn
  /\ <<tret[t], tbuf[t], tcont[t]>> # <<tret'[t], tbuf'[t], tcont'[t]>>

\* C13 as stated: with a pool ceiling of 4 and margin 1, once three buffers
\* are held the fourth acquisition with margin 1 succeeds (unless malloc
\* itself fails)
C13_FourthWithMarginSucceeds ==
  [][\A t \in 1..Threads :
       (/\ PoolLimit = 4 /\ Margin = 1 /\ used = 3
        /\ pc[t] = "refill" /\ pc'[t] = "unlock"
        /\ (allocated = PoolLimit \/ allocated' # allocated))
       => tb'[t]]_vars

\* C13: with a pool ceiling of 4 and margin 1, once three buffers are held
\* the fourth acquisition with margin 1 finds the test false, gets nothing
\* from the refill path and returns NULL with the handle on buf_wanted; the
\* fourth buffer is only handed out with margin 0 (b_alloc, b_alloc_fast
\* once it is on the free list), and an acquisition attempted while 4 are
\* held returns NULL with the handle on buf_wanted, in one step
C13_FourthNeedsMarginZero ==
  [][\A t \in 1..Threads :
       (PoolLimit = 4 /\ Margin = 1) =>
         /\ (pc[t] = "check" /\ pc'[t] # "check" /\ used = 3) =>
              pc'[t] = "refill"
         /\ (pc[t] = "refill" /\ pc'[t] = "unlock" /\ used >= 3) =>
              (~tb'[t] /\ used' = used)
         /\ (pc[t] = "unlock" /\ pc'[t] = "idle" /\ ~tb[t]) =>
              (tret'[t].ret = "NULL" /\ tbuf'[t] = "buf_wanted")
         /\ (CallOf(t, "b_alloc_fast") /\ used = 3 /\ allocated = 4) =>
              (tret'[t].ret = "new" /\ used' = 4)
         /\ (CallOf(t, "b_alloc") /\ used = 3 /\ allocated' = 4) =>
              (tret'[t].ret = "new" /\ used' = 4)
         /\ ((CallOf(t, "b_alloc") \/ CallOf(t, "b_alloc_fast")) /\ used = 4) =>
              (tret'[t].ret = "NULL" /\ tbuf'[t] = "buf_wanted" /\ used' = 4)]_vars

\* ceiling 4, margin 1: one thread got NULL from b_alloc_margin, then the
\* fourth buffer was handed out with margin 0 and the other thread got NULL
\* from b_alloc while none remained
C13_Witness ==
  \E t, u \in 1..Threads :
    /\ PoolLimit = 4 /\ Margin = 1 /\ allocated = 4 /\ used = 4
    /\ t # u /\ pc[t] = "idle" /\ pc[u] = "idle"
    /\ tret[t] = [fn |-> "b_alloc_margin", ret |-> "NULL"]
    /\ tbuf[t] = "buf_wanted"
    /\ tret[u] = [fn |-> "b_alloc", ret |-> "NULL"]
    /\ tbuf[u] = "buf_wanted"

(* ------------------------------- C14 ---------------------------------- *)
\* the first waiter of q, in FIFO order, whose target is not <from>; 0 when
\* there is none
FirstOther(q, from) ==
  LET I == {i \in 1 .. Len(q) : q[i] # from}
  IN IF I = {} THEN 0 ELSE q[CHOOSE i \in I : \A j \in I : i <= j]

C15_FirstOtherWaiterWoken ==
  [][\A t \in 1..Threads :
       /\ (pc[t] = "wq_walk" /\ pc'[t] = "cb") =>
            /\ cbt'[t] = FirstOther(wq, ofrom[t])
            /\ cbt'[t] # 0 /\ cbt'[t] # ofrom[t]
            /\ wq' = wq
       /\ (pc[t] = "wq_walk" /\ pc'[t] = "idle") =>
            (FirstOther(wq, ofrom[t]) = 0 /\ wq' = wq)
       /\ (pc[t] = "cb" /\ pc'[t] = "idle") =>
            /\ cbt[t] = FirstOther(wq, ofrom[t])
            /\ \E k \in 1 .. Len(wq) :
                 /\ wq[k] = cbt[t]
                 /\ wq' = SubSeq(wq, 1, k - 1) \o SubSeq(wq, k + 1, Len(wq))
                 /\ \A j \in 1 .. Len(wq) :
                      wq[j] = ofrom[t] =>
                        wq'[IF j < k THEN j ELSE j - 1] = ofrom[t]]_vars

\* the releasing thread is itself the first waiter: it is skipped and the
\* callback of the second waiter runs
C15_Witness ==
  \E t \in 1..Threads :
    /\ pc[t] = "cb" /\ Len(wq) >= 2
    /\ ofrom[t] = t /\ wq[1] = t /\ cbt[t] = wq[2]

(* ------------------------------- C16 ---------------------------------- *)
\* C16: while the wakeup callback of a waiter runs, the thread that runs it
\* does not hold buffer_wq_lock (nor the pool's lock), and so no thread
\* spins on a lock it holds itself
C16_NoLockAcrossCallback ==
  \A t \in 1..Threads :
    /\ (pc[t] = "cb" \/ depth[t] > 0) => (wq_lock # t /\ lock # t)
    /\ pc[t] = "wq_lock" => wq_lock # t

(* ------------------------------- C17 ---------------------------------- *)
Detaches == {"cs_detach_endp", "cs_detach_app"}

Pos(log, e) ==
  IF \E k \in 1 .. Len(log) : log[k] = e
  THEN CHOOSE k \in 1 .. Len(log) : log[k] = e /\ \A j \in 1 .. k - 1 : log[j] # e
  ELSE 0

\* the calls made to the endpoint's layers, without the accesses to the
\* conn_stream and its release
EndpCalls(log) ==
  SelectSeq(log, LAMBDA e : e \notin {"cs", "si_free", "pool_free"})

C19_DetachEndpReset ==
  (cop.name = "cs_detach_endp" /\ cop.pre.app # "NULL") =>
    /\ cs.flags = 0 /\ cs.end = "NULL" /\ cs.ctx = "NULL"
    /\ cs.data_cb = "NULL"
    /\ cs.si => cs.ops = "si_embedded_ops"
    /\ cs.app = cop.pre.app /\ cs.si = cop.pre.si
    /\ cs.freed = 0

\* a stream's connection that had a flag, a context and the connection's
\* callbacks is detached
C19_Witness ==
  /\ cop.name = "cs_detach_endp" /\ cop.pre.app = "stream"
  /\ cop.pre.end = "conn" /\ cop.pre.flags = 1 /\ cop.pre.ctx = "ctx"
  /\ cop.pre.ops = "si_conn_ops" /\ cop.pre.data_cb = "si_conn_cb"
  /\ cs.ops = "si_embedded_ops"

(* ------------------------------- C20 ---------------------------------- *)
\* the callbacks that go with the endpoint and the application of c
PairCallbacks(c) ==
  /\ (c.end = "conn" /\ c.app = "stream") =>
       (c.si /\ c.ops = "si_conn_ops" /\ c.data_cb = "si_conn_cb")
  /\ (c.end = "conn" /\ c.app = "check") => c.data_cb = "check_conn_cb"
  /\ (c.end = "appctx" /\ c.app = "stream") =>
       (c.si /\ c.ops = "si_applet_ops" /\ c.data_cb = "NULL")
  /\ (c.end = "NULL" /\ c.app = "stream") =>
       (c.si /\ c.ops = "si_embedded_ops" /\ c.data_cb = "NULL")

HookCalls(s, h) == {k \in DOMAIN s.hooks : s.hooks[k][1] = h}

\* C21: sc_conn_shutr (sc_conn_shutw) called with any mode on a direction
\* that is already shut leaves the connector, all flags of its endpoint
\* included, as it was and calls no hook of the mux: two calls leave the
\* state of one, and each hook is called at most once
C21_ShutIdempotent ==
  /\ (sop.name = "sc_conn_shutr" /\ sc_ep_test(sop.pre, SE_FL_SHR))
       => sc = sop.pre
  /\ (sop.name = "sc_conn_shutw" /\ sc_ep_test(sop.pre, SE_FL_SHW))
       => sc = sop.pre
  /\ Cardinality(HookCalls(sc, "shutr")) <= 1
  /\ Cardinality(HookCalls(sc, "shutw")) <= 1

\* a second sc_conn_shutr, in the other mode, after one that called the
\* mux's shutr hook
C21_Witness ==
  /\ sop.name = "sc_conn_shutr" /\ sop.arg = "CO_SHR_DRAIN"
  /\ "SE_FL_SHRR" \in sop.pre.sedesc.flags
  /\ "SE_FL_SHRD" \notin sc.sedesc.flags
  /\ sc.hooks # <<>> /\ HookCalls(sc, "shutr") # {}

(* ------------------------------- C22 ---------------------------------- *)
\* C22: se_fl_set_error sets SE_FL_ERROR if and only if SE_FL_EOS or
\* SE_FL_EOI was set, SE_FL_ERR_PENDING otherwise: one of the two error
\* flags per call, and no other flag or field is changed or cleared
C22_ErrorOrPending ==
  sop.name = "se_fl_set_error" =>
    LET pre == sop.pre.sedesc.flags
        post == sc.sedesc.flags
        ended == "SE_FL_EOS" \in pre \/ "SE_FL_EOI" \in pre
    IN /\ post = pre \cup (IF ended THEN {"SE_FL_ERROR"}
                                     ELSE {"SE_FL_ERR_PENDING"})
       /\ sc = [sop.pre EXCEPT !.sedesc.flags = post]

\* an error reported after the end of the stream, on an endpoint whose
\* error was pending: both error flags are set afterwards
C22_Witness ==
  /\ sop.name = "se_fl_set_error"
  /\ "SE_FL_EOS" \in sop.pre.sedesc.flags
  /\ "SE_FL_ERR_PENDING" \in sop.pre.sedesc.flags
  /\ "SE_FL_ERROR" \notin sop.pre.sedesc.flags
  /\ SE_FL_ERRORS \subseteq sc.sedesc.flags

(* ------------------------------- C23 ---------------------------------- *)
\* C23: whatever the calls and the values of now_ms, 0 included: after
\* sc_ep_report_blocked_send <fsb> is set and is the time of the first
\* blocked send reported since the last send activity, and after
\* sc_ep_report_send_activity it is TICK_ETERNITY
C23_FirstBlockedSendKept ==
  /\ sop.name = "sc_ep_report_blocked_send"
       => (tick_isset(sc.sedesc.fsb) /\ sc.sedesc.fsb = sop.first)
  /\ sop.name = "sc_ep_report_send_activity"
       => sc.sedesc.fsb = TICK_ETERNITY

(* ------------------------------- C24 ---------------------------------- *)
NeedFlagOf(name) ==
  IF name = "sc_have_buff" THEN "SC_FL_NEED_BUFF" ELSE "SC_FL_NEED_ROOM"

\* C24: sc_have_buff (sc_have_room) clears SC_FL_NEED_BUFF
\* (SC_FL_NEED_ROOM) and sets <lra> to now_ms exactly when that flag was
\* set; otherwise it changes nothing; the other need flag is never touched
C24_HaveClearsItsNeed ==
  sop.name \in {"sc_have_buff", "sc_have_room"} =>
    IF NeedFlagOf(sop.name) \in sop.pre.flags
    THEN sc = [sop.pre EXCEPT !.flags = @ \ {NeedFlagOf(sop.name)},
                              !.sedesc.lra = sop.now]
    ELSE sc = sop.pre

\* sc_have_buff with both need flags set, at a time that differs from the
\* last read activity
C24_Witness ==
  /\ sop.name = "sc_have_buff"
  /\ {"SC_FL_NEED_BUFF", "SC_FL_NEED_ROOM"} \subseteq sop.pre.flags
  /\ sop.pre.sedesc.lra # sop.now /\ tick_isset(sop.now)
  /\ sc.sedesc.lra = sop.now
  /\ "SC_FL_NEED_ROOM" \in sc.flags /\ "SC_FL_NEED_BUFF" \notin sc.flags

(* ------------------------------- C25 ---------------------------------- *)
\* C25: a call that breaks a programming invariant stops the process and
\* neither modifies nor frees anything: cs_detach_app on a conn_stream
\* that has no application aborts
C25_InvalidDetachAborts ==
  (cop.name = "cs_detach_app" /\ cop.pre.app = "NULL")
    => (cs.crashed /\ cs.freed = cop.pre.freed /\ cs.end = cop.pre.end
        /\ cs.data_cb = cop.pre.data_cb)

(* ------------------------------- C26 ---------------------------------- *)
\* what the update <name> with argument <arg> would make of the fields of
\* <q> if it were applied as it is
Applied(q, name, arg) ==
  IF name = "qcs_recv" THEN [q EXCEPT !.rx.offset = @ + arg]
  ELSE IF name = "qcs_sent" THEN [q EXCEPT !.tx.sent_offset = @ + arg]
  ELSE IF name = "qcs_ack" THEN [q EXCEPT !.tx.ack_offset = arg]
  ELSE IF name = "qcs_max_stream_data" THEN [q EXCEPT !.tx.msd = arg]
  ELSE q

FlowInv(q) ==
  /\ q.tx.ack_offset <= q.tx.sent_offset
  /\ q.tx.sent_offset <= q.tx.offset
  /\ q.tx.offset <= q.tx.msd
  /\ q.rx.offset <= q.qcc.rx.max_data

\* C26: tx.sent_offset never decreases and never passes tx.offset,
\* tx.offset never passes tx.msd, rx.offset never passes the receive limit;
\* an update that would break one of these is reported as a protocol error
\* and leaves the stream as it was
C26_FlowControlKept ==
  /\ FlowInv(qcs)
  /\ qop.pre.tx.sent_offset <= qcs.tx.sent_offset
  /\ qop.ret = "error" <=> ~FlowInv(Applied(qop.pre, qop.name, qop.arg))
  /\ qop.ret = "error" => qcs = qop.pre

\* more bytes received than the receive limit allows, after some were
\* accepted
C26_Witness ==
  /\ qop.name = "qcs_recv" /\ qop.ret = "error"
  /\ qcs.rx.offset > 0
  /\ qcs.rx.offset + qop.arg > qcs.qcc.rx.max_data
  /\ qcs.tx.sent_offset > 0

(* ------------------------------- C27 ---------------------------------- *)
\* C27: after bo_putblk has copied len bytes into a buffer without pending
\* input, p has advanced by len modulo size and o has grown by len, also
\* when the block is copied in two segments of different lengths, and the
\* pending output is the previous output followed by the len bytes copied
C27_OutputBlockAppended ==
  (op.name = "bo_putblk" /\ op.pre.i = 0 /\ op.ret > 0) =>
    /\ buf.p = (op.pre.p + op.ret) % buf.size
    /\ buf.o = op.pre.o + op.ret
    /\ ReadOutput(buf) = ReadOutput(op.pre) \o SubSeq(op.arg, 1, op.ret)

(* ------------------------------- C28 ---------------------------------- *)
\* C28: bi_istput is all or nothing: it returns ist.len and appends ist to
\* the pending input when ist fits in the free space; otherwise it leaves
\* the buffer unchanged and returns 0 when ist.len <= size (ist would fit in
\* the emptied buffer), -1 only when ist.len > size
C28_IstputAllOrNothing ==
  op.name = "bi_istput" =>
    IF Len(op.arg) <= Free(op.pre)
    THEN /\ op.ret = Len(op.arg)
         /\ ReadInput(buf) = ReadInput(op.pre) \o op.arg
         /\ ReadOutput(buf) = ReadOutput(op.pre)
         /\ buf.p = op.pre.p /\ buf.o = op.pre.o
    ELSE /\ buf = op.pre
         /\ op.ret = (IF Len(op.arg) <= op.pre.size THEN 0 ELSE 0 - 1)

(* ------------------------------- C30 ---------------------------------- *)
\* the number of bytes that the output-side write has added to the output
Written == buf.o - op.pre.o

\* C30 as stated: bo_putblk / bo_putchr on a buffer with pending input
\* leaves the pending input intact: the i bytes read from the cursor are
\* the same before and after
C30_InputIntact ==
  (op.name \in {"bo_putblk", "bo_putchr"} /\ op.pre.i > 0)
    => ReadInput(buf) = ReadInput(op.pre)

\* C30 amended: bo_putblk / bo_putchr on a buffer with pending input keeps
\* the count i, and changes nothing when it writes nothing; when it
\* writes, it stores the first byte at the cursor, over the first byte of
\* the pending input, and moves the cursor
C30_InputCountKeptBytesOverwritten ==
  (op.name \in {"bo_putblk", "bo_putchr"} /\ op.pre.i > 0) =>
    /\ buf.i = op.pre.i
    /\ Written = 0 => buf = op.pre
    /\ Written > 0 => /\ buf.area[op.pre.p] = op.arg[1]
                      /\ op.pre.p \in op.acc

\* a block written to the output of a buffer with pending input: the
\* pending input read afterwards is not the one that was there
C30_Witness ==
  /\ op.name = "bo_putblk" /\ op.pre.i > 0 /\ op.ret > 1
  /\ buf.i = op.pre.i
  /\ ReadInput(buf) # ReadInput(op.pre)
  /\ buf.area[op.pre.p] # op.pre.area[op.pre.p]

(* ------------------------------- C29 ---------------------------------- *)
\* what the comparison of <ist> with the bytes <data> has to return
Compared(data, ist) ==
  IF Len(data) < Len(ist) THEN 0
  ELSE IF SubSeq(data, 1, Len(ist)) = ist THEN Len(ist) ELSE 0 - 1

\* C29: in its two documented uses b_isteq compares ist with the bytes at
\* offset o from the cursor, with wrap-around: with o = 0, n = b->i the
\* pending input, with o = -b->o, n = b->o the pending output, and every
\* address it reads lies within [data, data + size), o being an unsigned
\* int
C29_IsteqBothUses ==
  /\ op.name = "b_isteq(b, 0, b->i, ist)" =>
       /\ op.acc \subseteq 0 .. op.pre.size - 1
       /\ op.ret = Compared(ReadInput(op.pre), op.arg)
  /\ op.name = "b_isteq(b, -b->o, b->o, ist)" =>
       /\ op.acc \subseteq 0 .. op.pre.size - 1
       /\ op.ret = Compared(ReadOutput(op.pre), op.arg)

(* ------------------------------- C31 ---------------------------------- *)
\* C31: when cs_attach_app fails (it returns -1, the stream interface
\* could not be allocated) the conn_stream is as it was before the call:
\* app, si, ops and data_cb are unchanged, so that a conn_stream that had
\* no application still has none
C31_FailedAttachChangesNothing ==
  (cop.name = "cs_attach_app" /\ cop.ret < 0) =>
    /\ cs.app = cop.pre.app
    /\ cs.si = cop.pre.si /\ cs.ops = cop.pre.ops
    /\ cs.data_cb = cop.pre.data_cb

====
